---- MODULE Spec2Model ----
(***************************************************************************)
(* Overmind: the per-colony Overlord (objective registration, task         *)
(* assignment, spawn requests, directive placement, safe mode) and the      *)
(* Objective Group / Resource Request Group it drives.                      *)
(***************************************************************************)
EXTENDS Integers, Sequences, FiniteSets, TLC

\* ------------------------------------------------------------------ bounds
NumWorkers == 2
MaxTicks == 2
MaxPool == 3
MaxTime == 60
QueenCapacity == 2

\* --------------------------------------------------------------- constants
EMERGENCY_ENERGY_THRESHOLD == 1300
FortifyCount == 5
CriticalBarrierHits == 5000
PickupMinimum == 100
\* settings.workerPatternRepetitionLimit is Infinity, written -1 here
WorkerPatternRepetitionLimit == -1

\* ---------------------------------------------------------------- universe
Workers == 1..NumWorkers
NoWorker == 0
NoTask == <<>>

\* (mutant) build and repair change places
OverlordPrioritiesSwapped ==
    << "supplyTower", "supply", "pickupEnergy", "collectEnergyMiningSite",
       "collectEnergyContainer", "depositContainer", "repair", "build",
       "buildRoad", "fortify", "upgrade" >>

\* Overlord.constructor: the priority that objectives are performed in
OverlordPriorities ==
    << "supplyTower", "supply", "pickupEnergy", "collectEnergyMiningSite",
       "collectEnergyContainer", "depositContainer", "build", "repair",
       "buildRoad", "fortify", "upgrade" >>

BucketNames == { OverlordPriorities[i] : i \in 1..Len(OverlordPriorities) }

\* colony.rooms: the colony room first, then its outposts
ColonyRoom == "W1"
Outposts == << "W2" >>
ColonyRooms == << ColonyRoom >> \o Outposts
\* rooms of the colonies this colony incubates
IncubatedRooms == << << "W3" >> >>
AllRooms == { "W1", "W2", "W3" }

\* Positions are points of a line; range is the absolute difference.
Abs(n) == IF n < 0 THEN -n ELSE n
Range(p, q) == Abs(p - q)

EntityPos ==
    [ c1 |-> 2, c2 |-> 8, c3 |-> 6,
      d1 |-> 1, d2 |-> 9,
      r1 |-> 3, r2 |-> 7, r3 |-> 9,
      s1 |-> 4, rs1 |-> 6,
      b1 |-> 0, b2 |-> 1, b3 |-> 2, b4 |-> 8, b5 |-> 9, b6 |-> 10,
      ctrl1 |-> 5, ctrl2 |-> 10,
      sp1 |-> 5, sp2 |-> 3, t1 |-> 6 ]

Pos(e) == EntityPos[e]

\* ------------------------------------------------------- sequence helpers
RECURSIVE Flatten(_)
Flatten(ss) == IF ss = <<>> THEN <<>> ELSE Head(ss) \o Flatten(Tail(ss))

Range1(s) == { s[i] : i \in 1..Len(s) }

Take(s, n) == SubSeq(s, 1, IF Len(s) < n THEN Len(s) ELSE n)

\* _.sortBy(barriers, hits): ascending and stable
RECURSIVE InsertByHits(_, _)
InsertByHits(x, s) ==
    IF s = <<>> THEN << x >>
    ELSE IF Head(s).hits <= x.hits THEN << Head(s) >> \o InsertByHits(x, Tail(s))
    ELSE << x >> \o s

RECURSIVE SortByHits(_)
SortByHits(s) ==
    IF s = <<>> THEN <<>>
    ELSE InsertByHits(s[Len(s)], SortByHits(SubSeq(s, 1, Len(s) - 1)))

\* ------------------------------------------------------------ world inputs
\* resourceRequests.resourceOut.haul / resourceIn.haul, as the hive clusters
\* fill them before Overlord.init reads them
Req(t, r) == [target |-> t, resourceType |-> r]

Dropped(i, a) == [id |-> i, amount |-> a]
Structure(i, t, h, m) == [id |-> i, structureType |-> t, hits |-> h, hitsMax |-> m]
Barrier(i, h) == [id |-> i, hits |-> h]
Objective(ty, t) == [type |-> ty, target |-> t, claimedBy |-> NoWorker]

Nothing == [W1 |-> <<>>, W2 |-> <<>>]

\* what there is to haul: the requests filed with the ResourceRequestGroup,
\* dropped energy, and the objectives the Hatchery and CommandCenter register
HaulChoices ==
    { [ resourceOut |-> <<>>, resourceIn |-> <<>>, droppedEnergy |-> Nothing,
        hiveObjectives |-> <<>> ],
      [ resourceOut |-> << Req("c1", "energy") >>, resourceIn |-> <<>>,
        droppedEnergy |-> [W1 |-> << Dropped("d1", PickupMinimum) >>, W2 |-> <<>>],
        hiveObjectives |-> <<>> ],
      [ resourceOut |-> << Req("c1", "mineral"), Req("c2", "energy") >>,
        resourceIn |-> << Req("c3", "energy") >>,
        droppedEnergy |-> [W1 |-> << Dropped("d1", PickupMinimum + 1) >>,
                           W2 |-> << Dropped("d2", PickupMinimum + 50) >>],
        hiveObjectives |-> << Objective("supplyTower", "t1"), Objective("supply", "sp1"),
                              Objective("supply", "sp2") >> ] }

\* what there is to build, repair, fortify and upgrade
WorkChoices ==
    { [ repairables |-> Nothing, structureSites |-> Nothing, roadSites |-> Nothing,
        barriers |-> Nothing, controller |-> [W1 |-> "none", W2 |-> "none"],
        incubator |-> FALSE ],
      [ repairables |->
            [W1 |-> << Structure("r1", "road", 69, 100), Structure("r2", "tower", 99, 100) >>,
             W2 |-> << Structure("r3", "container", 70, 100) >>],
        structureSites |-> Nothing, roadSites |-> Nothing, barriers |-> Nothing,
        controller |-> [W1 |-> "ctrl1", W2 |-> "none"], incubator |-> FALSE ],
      [ repairables |->
            [W1 |-> << Structure("r1", "tower", 100, 100),
                       Structure("r2", "container", 69, 100) >>,
             W2 |-> << Structure("r3", "road", 10, 100) >>],
        structureSites |-> [W1 |-> << "s1" >>, W2 |-> <<>>],
        roadSites |-> [W1 |-> <<>>, W2 |-> << "rs1" >>],
        barriers |->
            [W1 |-> << Barrier("b1", 6000), Barrier("b2", 100), Barrier("b3", 9000),
                       Barrier("b4", 100), Barrier("b5", 7000), Barrier("b6", 200) >>,
             W2 |-> <<>>],
        controller |-> [W1 |-> "none", W2 |-> "ctrl2"], incubator |-> FALSE ],
      [ repairables |-> Nothing,
        structureSites |-> [W1 |-> << "s1" >>, W2 |-> <<>>],
        roadSites |-> Nothing,
        barriers |-> [W1 |-> << Barrier("b1", 6000), Barrier("b2", 100) >>, W2 |-> <<>>],
        controller |-> [W1 |-> "ctrl1", W2 |-> "ctrl2"], incubator |-> TRUE ] }

Worlds ==
    { [ resourceOut |-> h.resourceOut, resourceIn |-> h.resourceIn,
        droppedEnergy |-> h.droppedEnergy, hiveObjectives |-> h.hiveObjectives,
        repairables |-> k.repairables, structureSites |-> k.structureSites,
        roadSites |-> k.roadSites, barriers |-> k.barriers,
        controller |-> k.controller, incubator |-> k.incubator ] :
      h \in HaulChoices, k \in WorkChoices }

\* ------------------------------------------------------------------- state
VARIABLES
    world,               \* the world snapshot the objectives are built from
    env,                 \* colony state read by spawn requests, safe mode, directives
    tick,                \* the ticks begun so far, counted up to MaxTicks
    pc,                  \* position in the tick: new, hive, init, assign, ran
    objectivePriorities, \* ObjectiveGroup.objectivePriorities
    objectives,          \* ObjectiveGroup: bucket name -> sequence of Objective
    resourceRequests,    \* ResourceRequestGroup: queue name -> sequence of requests
    caps,                \* worker -> the objective types it can perform
    wpos,                \* worker -> position
    task,                \* worker -> its Task, NoTask when idle
    energy,              \* worker -> carry.energy
    hatchery,            \* the hatchery's link and battery
    log,                 \* this tick's assignTask calls, in order
    prevLog,             \* the previous tick's assignTask calls
    firstPool,           \* the pool as first registered (<<>> before that)
    spawnQueue,          \* hatchery.enqueue calls of this tick
    created,             \* Directive.create calls of this tick
    safeMode,            \* controller.activateSafeMode was called this tick
    raised,              \* a call dereferenced an absent reference
    phases,              \* the steps of init and run taken this tick, in order
    taskSets,            \* worker -> how often its task was set this tick
    chosen,              \* worker -> the task handleQueen's first step set this tick
    Game,                \* Game.time, Game.shard, Game.market as TraderJoe reads them
    terminals,           \* terminal room -> the terminal's cooldown, energy, free space
    memory,              \* TraderJoe.memory (the market cache)
    stats,               \* TraderJoe.stats
    lastOp,              \* the TraderJoe method called last, with its arguments
    marketCalls,         \* the Game.market calls that method made, in order
    intents,             \* this tick's order calls, in effect from the next tick
    sold,                \* the rooms and resources sell was called for this tick
    rebuilds,            \* the ticks at which buildMarketCache ran
    ledger               \* the totals of all transactions with an order so far

vars == << world, env, tick, pc, objectivePriorities, objectives, resourceRequests,
           caps, wpos, task, energy, hatchery, log, prevLog, firstPool, spawnQueue,
           created, safeMode, raised, phases, taskSets, chosen, Game, terminals, memory,
           stats, lastOp, marketCalls, intents, sold, rebuilds, ledger >>

traderVars == << Game, terminals, memory, stats, lastOp, marketCalls, intents,
                sold, rebuilds, ledger >>
workerVars == << caps, wpos, energy, hatchery >>
groupVars == << objectivePriorities, objectives, resourceRequests >>
historyVars == << log, prevLog, firstPool >>
effectVars == << spawnQueue, created, safeMode, raised, phases, taskSets, chosen >>

\* ---------------------------------------------------------- ObjectiveGroup
\* new ObjectiveGroup(priorities): one empty bucket per name
EmptyBuckets == [b \in BucketNames |-> <<>>]

\* ObjectiveGroup.registerObjectives(...sets): append each to its type bucket
RegisterInto(objs, set) ==
    [b \in BucketNames |->
        LET OfType(o) == o.type = b IN objs[b] \o SelectSeq(set, OfType)]

\* (mutant) capabilities are not consulted
AssignableAnyRole(objs, c, b) ==
    { i \in 1..Len(objs[b]) : objs[b][i].claimedBy = NoWorker }

\* the objectives of bucket b a worker of capabilities c may still take
Assignable(objs, c, b) ==
    { i \in 1..Len(objs[b]) : b \in c /\ objs[b][i].claimedBy = NoWorker }

\* the first bucket, in priority order, that yields a candidate (0: none)
RECURSIVE FirstBucketFrom(_, _, _, _)
FirstBucketFrom(prio, objs, c, k) ==
    IF k > Len(prio) THEN 0
    ELSE IF Assignable(objs, c, prio[k]) # {} THEN k
    ELSE FirstBucketFrom(prio, objs, c, k + 1)

FirstBucket(prio, objs, c) == FirstBucketFrom(prio, objs, c, 1)

\* (mutant) any unclaimed objective of the bucket, whatever its range
NearestAny(objs, c, b, p) == Assignable(objs, c, b)

\* within a bucket: the unclaimed objectives nearest to position p
Nearest(objs, c, b, p) ==
    { i \in Assignable(objs, c, b) :
        \A j \in Assignable(objs, c, b) :
            Range(p, Pos(objs[b][i].target)) <= Range(p, Pos(objs[b][j].target)) }

\* (mutant) the objective is handed out without being marked claimed
ClaimForgotten(objs, b, i, w) == objs

Claim(objs, b, i, w) == [objs EXCEPT ![b][i].claimedBy = w]

TaskFor(o) == << o.type, o.target >>

\* one assignTask call: who asked, the Task made, and the targets it was
\* chosen among (the equally near ones)
LogEntry(w, t, a) == [worker |-> w, task |-> t, among |-> a]

\* a worker asks for a task at most once per tick
Queried(w) == \E i \in 1..Len(log) : log[i].worker = w

\* ObjectiveGroup.assignTask(creep)
GroupAssignTask(w) ==
    LET k == FirstBucket(objectivePriorities, objectives, caps[w]) IN
    IF k = 0
    THEN /\ task' = [task EXCEPT ![w] = NoTask]
         /\ log' = Append(log, LogEntry(w, NoTask, {}))
         /\ UNCHANGED objectives
    ELSE LET b == objectivePriorities[k] IN
         \E i \in Nearest(objectives, caps[w], b, wpos[w]) :
            /\ objectives' = Claim(objectives, b, i, w)
            /\ task' = [task EXCEPT ![w] = TaskFor(objectives[b][i])]
            /\ log' = Append(log, LogEntry(w, TaskFor(objectives[b][i]),
                    { objectives[b][j].target :
                        j \in Nearest(objectives, caps[w], b, wpos[w]) }))

\* ---------------------------------------------------------------- Overlord
EmptyRequests ==
    [resourceOutHaul |-> <<>>, resourceInHaul |-> <<>>, supply |-> <<>>, withdraw |-> <<>>]

\* (mutant) the constructor keeps the ObjectiveGroup of the tick before
ConstructKeepingGroup ==
    /\ pc = "new"
    /\ pc' = "hive"
    /\ objectivePriorities' = OverlordPriorities
    /\ resourceRequests' = EmptyRequests
    /\ UNCHANGED << traderVars, world, env, tick, objectives, workerVars, task, historyVars,
                    effectVars >>

\* (mutant) the constructor keeps the ResourceRequestGroup of the tick before
ConstructKeepingRequests ==
    /\ pc = "new"
    /\ pc' = "hive"
    /\ objectivePriorities' = OverlordPriorities
    /\ objectives' = EmptyBuckets
    /\ UNCHANGED << traderVars, world, env, tick, resourceRequests, workerVars, task,
                    historyVars, effectVars >>

\* Overlord.constructor: a fresh ObjectiveGroup over the Overlord's priorities
\* and a fresh ResourceRequestGroup
Construct ==
    /\ pc = "new"
    /\ pc' = "hive"
    /\ objectivePriorities' = OverlordPriorities
    /\ objectives' = EmptyBuckets
    /\ resourceRequests' = EmptyRequests
    /\ UNCHANGED << traderVars, world, env, tick, workerVars, task, historyVars, effectVars >>

\* The hive clusters' init: they file their resource requests and register
\* their own objectives before the Overlord's init runs.
HiveClustersInit ==
    /\ pc = "hive"
    /\ pc' = "init"
    /\ resourceRequests' = [resourceRequests EXCEPT
            !.resourceOutHaul = @ \o world.resourceOut,
            !.resourceInHaul = @ \o world.resourceIn]
    /\ objectives' = RegisterInto(objectives, world.hiveObjectives)
    /\ UNCHANGED << traderVars, world, env, tick, objectivePriorities, workerVars, task,
                    historyVars, effectVars >>

IsEnergy(request) == request.resourceType = "energy"

\* collect energy from sites that requested a withdrawal
CollectObjectives(rr) ==
    LET withdrawalRequests == SelectSeq(rr.resourceOutHaul, IsEnergy) IN
    [i \in 1..Len(withdrawalRequests) |->
        Objective("collectEnergyMiningSite", withdrawalRequests[i].target)]

\* deposit energy to containers requesting a refill
DepositObjectives(rr) ==
    LET depositRequests == SelectSeq(rr.resourceInHaul, IsEnergy) IN
    [i \in 1..Len(depositRequests) |->
        Objective("depositContainer", depositRequests[i].target)]

NeedsRepair(s) ==
    /\ s.hits < s.hitsMax
    /\ (s.structureType # "container" \/ 10 * s.hits < 7 * s.hitsMax)
    /\ (s.structureType # "road" \/ 10 * s.hits < 7 * s.hitsMax)

WorthPickup(d) == d.amount > PickupMinimum

\* the objectives registered for one room of the colony
RoomObjectives(w, room) ==
    LET droppedEnergy == SelectSeq(w.droppedEnergy[room], WorthPickup)
        repairStructures == SelectSeq(w.repairables[room], NeedsRepair)
        lowestBarriers == Take(SortByHits(w.barriers[room]), FortifyCount)
    IN  [i \in 1..Len(droppedEnergy) |-> Objective("pickupEnergy", droppedEnergy[i].id)]
        \o [i \in 1..Len(repairStructures) |-> Objective("repair", repairStructures[i].id)]
        \o [i \in 1..Len(w.structureSites[room]) |->
                Objective("build", w.structureSites[room][i])]
        \o [i \in 1..Len(w.roadSites[room]) |->
                Objective("buildRoad", w.roadSites[room][i])]
        \o (IF ~w.incubator
            THEN [i \in 1..Len(lowestBarriers) |-> Objective("fortify", lowestBarriers[i].id)]
            ELSE <<>>)
        \o (IF w.controller[room] # "none"
            THEN << Objective("upgrade", w.controller[room]) >>
            ELSE <<>>)

RECURSIVE RegisterRooms(_, _, _)
RegisterRooms(objs, w, rooms) ==
    IF rooms = <<>> THEN objs
    ELSE RegisterRooms(RegisterInto(objs, RoomObjectives(w, Head(rooms))), w, Tail(rooms))

\* Overlord.registerObjectives
RegisterObjectives(objs, rr, w) ==
    RegisterRooms(RegisterInto(objs, CollectObjectives(rr) \o DepositObjectives(rr)),
                  w, ColonyRooms)

Protocreep(r, a, l) == [role |-> r, assignment |-> a, patternRepetitionLimit |-> l]

\* (mutant) one worker is thought enough, incubator or not
CreepRequestsOneWorker(w, e) ==
    IF e.hatchery
    THEN (IF e.terminal /\ e.labs > 0 /\ e.creeps.mineralSupplier < 1
          THEN << Protocreep("mineralSupplier", "terminal", 1) >>
          ELSE <<>>)
         \o (IF e.creeps.worker < 1 /\ e.storageUnits > 0
             THEN << Protocreep("worker", w.controller[ColonyRoom],
                                WorkerPatternRepetitionLimit) >>
             ELSE <<>>)
    ELSE <<>>

\* (mutant) the live mineral suppliers are not counted
CreepRequestsUncounted(w, e) ==
    IF e.hatchery
    THEN (IF e.terminal /\ e.labs > 0
          THEN << Protocreep("mineralSupplier", "terminal", 1) >>
          ELSE <<>>)
         \o (LET numWorkersNeeded == IF w.incubator THEN 3 ELSE 1 IN
              IF e.creeps.worker < numWorkersNeeded /\ e.storageUnits > 0
              THEN << Protocreep("worker", w.controller[ColonyRoom],
                              WorkerPatternRepetitionLimit) >>
              ELSE <<>>)
    ELSE <<>>

\* Overlord.registerCreepRequests: what it enqueues at the hatchery
CreepRequests(w, e) ==
    IF e.hatchery
    THEN (IF e.terminal /\ e.labs > 0 /\ e.creeps.mineralSupplier < 1
          THEN << Protocreep("mineralSupplier", "terminal", 1) >>
          ELSE <<>>)
         \o (LET numWorkersNeeded == IF w.incubator THEN 3 ELSE 1 IN
              IF e.creeps.worker < numWorkersNeeded /\ e.storageUnits > 0
              THEN << Protocreep("worker", w.controller[ColonyRoom],
                              WorkerPatternRepetitionLimit) >>
              ELSE <<>>)
    ELSE <<>>

IsGuardFlag(flag) == flag = "guard"
IsEmergencyFlag(flag) == flag = "emergency"
IsDirectiveFlag(flag) == IsGuardFlag(flag) \/ IsEmergencyFlag(flag)

\* Overlord.directives, filled in by the Overmind: one directive per guard or
\* emergency flag of the colony's rooms
Directives(e) ==
    LET rooms == ColonyRooms \o Flatten(IncubatedRooms) IN
    Flatten([i \in 1..Len(rooms) |-> SelectSeq(e.flags[rooms[i]], IsDirectiveFlag)])

\* one call of the hook for each directive, in order
Hooks(hook, ds) == [i \in 1..Len(ds) |-> hook]

\* Overlord.init
OverlordInit ==
    /\ pc = "init"
    /\ pc' = "assign"
    /\ objectives' = RegisterObjectives(objectives, resourceRequests, world)
    /\ spawnQueue' = spawnQueue \o CreepRequests(world, env)
    /\ phases' = phases \o Hooks("directive.init", Directives(env))
                        \o << "registerObjectives", "registerCreepRequests" >>
    /\ firstPool' = IF firstPool = <<>> THEN << objectives' >> ELSE firstPool
    /\ UNCHANGED << traderVars, world, env, tick, objectivePriorities, resourceRequests,
                    workerVars, task, log, prevLog, created, safeMode, raised,
                    taskSets, chosen >>

\* Overlord.assignTask(creep), called by a worker that needs a new task
AssignTask(w) ==
    /\ pc = "assign"
    /\ ~Queried(w)
    /\ GroupAssignTask(w)
    /\ UNCHANGED << traderVars, world, env, tick, pc, objectivePriorities, resourceRequests,
                    workerVars, prevLog, firstPool, effectVars >>


Creation(k, r, p) == [kind |-> k, room |-> r, pos |-> p]

\* the rooms placeDirectives checks: outposts, then the incubated colonies' rooms
RoomsToCheck == Outposts \o Flatten(IncubatedRooms)

\* (mutant) the room's flags are not looked at
GuardCreationUnfiltered(e, room) ==
    IF Len(e.hostiles[room]) > 0
    THEN << Creation("guard", room, e.hostiles[room][1].pos) >>
    ELSE <<>>

\* the guard directive placeDirectives creates for one room
GuardCreation(e, room) ==
    LET guardFlags == SelectSeq(e.flags[room], IsGuardFlag)
    IN  IF Len(e.hostiles[room]) > 0 /\ Len(guardFlags) = 0
        THEN << Creation("guard", room, e.hostiles[room][1].pos) >>
        ELSE <<>>

\* the guard directives one pass over the rooms creates
RECURSIVE GuardCreations(_, _)
GuardCreations(e, rooms) ==
    IF rooms = <<>> THEN <<>>
    ELSE GuardCreation(e, Head(rooms)) \o GuardCreations(e, Tail(rooms))

\* (mutant) the emergency flags already in the room are not looked at
EmergencyCreationsUnfiltered(e) ==
    IF ~e.isIncubating /\ e.hatchery
    THEN LET roomHasEnergy == e.energyAvailable >= EMERGENCY_ENERGY_THRESHOLD
             roomHasEnergySupply ==
                 /\ e.storageEnergy # -1
                 /\ e.storageEnergy > EMERGENCY_ENERGY_THRESHOLD
                 /\ e.creeps.supplier > 0
             roomHasMiners == e.creeps.miner > 0
         IN  IF ~roomHasEnergy /\ ~roomHasEnergySupply /\ ~roomHasMiners
             THEN << Creation("emergency", ColonyRoom, "hatchery") >>
             ELSE <<>>
    ELSE <<>>

\* (mutant) the miners are not looked at
EmergencyCreationsIgnoringMiners(e) ==
    IF ~e.isIncubating /\ e.hatchery
    THEN LET roomHasEnergy == e.energyAvailable >= EMERGENCY_ENERGY_THRESHOLD
             roomHasEnergySupply ==
                 /\ e.storageEnergy # -1
                 /\ e.storageEnergy > EMERGENCY_ENERGY_THRESHOLD
                 /\ e.creeps.supplier > 0
             emergencyFlags == SelectSeq(e.flags[ColonyRoom], IsEmergencyFlag)
         IN  IF ~roomHasEnergy /\ ~roomHasEnergySupply /\ Len(emergencyFlags) = 0
             THEN << Creation("emergency", ColonyRoom, "hatchery") >>
             ELSE <<>>
    ELSE <<>>

\* the emergency directive placeDirectives creates
EmergencyCreations(e) ==
    IF ~e.isIncubating /\ e.hatchery
    THEN LET roomHasEnergy == e.energyAvailable >= EMERGENCY_ENERGY_THRESHOLD
             roomHasEnergySupply ==
                 /\ e.storageEnergy # -1
                 /\ e.storageEnergy > EMERGENCY_ENERGY_THRESHOLD
                 /\ e.creeps.supplier > 0
             roomHasMiners == e.creeps.miner > 0
             emergencyFlags == SelectSeq(e.flags[ColonyRoom], IsEmergencyFlag)
         IN  IF ~roomHasEnergy /\ ~roomHasEnergySupply /\ ~roomHasMiners
                /\ Len(emergencyFlags) = 0
             THEN << Creation("emergency", ColonyRoom, "hatchery") >>
             ELSE <<>>
    ELSE <<>>

\* Overlord.placeDirectives: the Directive.create calls it makes, in order
PlaceDirectives(e) == GuardCreations(e, RoomsToCheck) \o EmergencyCreations(e)

IsCritical(s) == s.hits < CriticalBarrierHits
IsNotInvader(creep) == creep.owner # "Invader"

\* Overlord.handleSafeMode: whether it calls controller.activateSafeMode()
WantsSafeMode(w, e) ==
    LET criticalBarriers == SelectSeq(w.barriers[ColonyRoom], IsCritical)
        nonInvaderHostiles == SelectSeq(e.hostiles[ColonyRoom], IsNotInvader)
    IN  Len(criticalBarriers) > 0 /\ Len(nonInvaderHostiles) > 0 /\ ~w.incubator

\* flags the Directive.create calls of this tick place: seen from the next tick
RECURSIVE PlacedIn(_, _)
PlacedIn(cs, room) ==
    IF cs = <<>> THEN <<>>
    ELSE (IF Head(cs).room = room THEN << Head(cs).kind >> ELSE <<>>)
         \o PlacedIn(Tail(cs), room)

\* (mutant) the directives' run hooks are called last, after the placement
OverlordRunHooksLast ==
    /\ pc = "assign"
    /\ pc' = "ran"
    /\ IF WantsSafeMode(world, env) /\ world.controller[ColonyRoom] = "none"
       THEN /\ raised' = TRUE
            /\ phases' = phases \o << "handleSafeMode" >>
            /\ UNCHANGED << traderVars, safeMode, created >>
       ELSE /\ safeMode' = (safeMode \/ WantsSafeMode(world, env))
            /\ created' = created \o PlaceDirectives(env)
            /\ phases' = phases \o << "handleSafeMode", "placeDirectives" >>
                                \o Hooks("directive.run", Directives(env))
            /\ UNCHANGED raised
    /\ UNCHANGED << traderVars, world, env, tick, groupVars, workerVars, task, historyVars,
                    spawnQueue, taskSets, chosen >>

\* (mutant) a directive's flag is put into the room at once
OverlordRunPlacingFlags ==
    /\ pc = "assign"
    /\ pc' = "ran"
    /\ IF WantsSafeMode(world, env) /\ world.controller[ColonyRoom] = "none"
       THEN /\ raised' = TRUE
            /\ phases' = phases \o Hooks("directive.run", Directives(env))
                                \o << "handleSafeMode" >>
            /\ UNCHANGED << traderVars, safeMode, created, env >>
       ELSE /\ safeMode' = (safeMode \/ WantsSafeMode(world, env))
            /\ created' = created \o PlaceDirectives(env)
            /\ env' = [env EXCEPT !.flags =
                          [r \in AllRooms |-> env.flags[r] \o PlacedIn(created', r)]]
            /\ phases' = phases \o Hooks("directive.run", Directives(env))
                                \o << "handleSafeMode", "placeDirectives" >>
            /\ UNCHANGED raised
    /\ UNCHANGED << traderVars, world, tick, groupVars, workerVars, task, historyVars,
                    spawnQueue, taskSets, chosen >>

\* Overlord.run: the directives' run hooks, safe mode, then directive
\* placement; a call on the absent controller raises and ends the run there
OverlordRun ==
    /\ pc = "assign"
    /\ pc' = "ran"
    /\ IF WantsSafeMode(world, env) /\ world.controller[ColonyRoom] = "none"
       THEN /\ raised' = TRUE
            /\ phases' = phases \o Hooks("directive.run", Directives(env))
                                \o << "handleSafeMode" >>
            /\ UNCHANGED << traderVars, safeMode, created >>
       ELSE /\ safeMode' = (safeMode \/ WantsSafeMode(world, env))
            /\ created' = created \o PlaceDirectives(env)
            /\ phases' = phases \o Hooks("directive.run", Directives(env))
                                \o << "handleSafeMode", "placeDirectives" >>
            /\ UNCHANGED raised
    /\ UNCHANGED << traderVars, world, env, tick, groupVars, workerVars, task, historyVars,
                    spawnQueue, taskSets, chosen >>

\* ------------------------------------------------------------- environment
WithPlacedFlags(e) ==
    [e EXCEPT !.flags = [r \in AllRooms |-> e.flags[r] \o PlacedIn(created, r)]]

\* the end of a tick: the next tick starts from environment e2
EndTick(e2) ==
    /\ pc = "ran"
    /\ tick' = IF tick < MaxTicks THEN tick + 1 ELSE tick
    /\ pc' = "new"
    /\ env' = e2
    /\ prevLog' = log
    /\ log' = <<>>
    /\ spawnQueue' = <<>>
    /\ created' = <<>>
    /\ safeMode' = FALSE
    /\ raised' = FALSE
    /\ phases' = <<>>
    /\ taskSets' = [w \in Workers |-> 0]
    /\ chosen' = [w \in Workers |-> NoTask]
    /\ UNCHANGED << traderVars, world, groupVars, workerVars, task, firstPool >>

\* the world and the colony stay as they are
NextTick == EndTick(WithPlacedFlags(env))

NoFlags == [r \in AllRooms |-> <<>>]
NoHostiles == [r \in AllRooms |-> <<>>]
Creeps(s, m, w, ms) == [supplier |-> s, miner |-> m, worker |-> w, mineralSupplier |-> ms]

QuietEnv ==
    [ energyAvailable |-> EMERGENCY_ENERGY_THRESHOLD, storageEnergy |-> -1,
      creeps |-> Creeps(0, 1, 0, 0), isIncubating |-> FALSE, hatchery |-> TRUE,
      flags |-> NoFlags, hostiles |-> NoHostiles,
      terminal |-> TRUE, labs |-> 1, storageUnits |-> 1 ]

\* ----------------------------------------------------------------- workers
Haulers == { "supplyTower", "supply", "pickupEnergy", "collectEnergyMiningSite",
             "collectEnergyContainer", "depositContainer" }
Builders == { "build", "repair", "buildRoad", "fortify", "upgrade" }
\* the workers' capability sets: all alike, or the first unlike the others
CapChoices ==
    { [w \in Workers |-> BucketNames], [w \in Workers |-> Haulers],
      [w \in Workers |-> Builders],
      [w \in Workers |-> IF w = 1 THEN Haulers ELSE Builders],
      [w \in Workers |-> IF w = 1 THEN Builders ELSE BucketNames] }
\* the workers spread over the line, or all at one point
WorkerPosChoices == { [w \in Workers |-> (4 * (w - 1)) % 11], [w \in Workers |-> 5] }

\* a hatchery with neither link nor battery
BareHatchery == [link |-> "none", battery |-> "none"]

\* no trade network in these runs
TraderAbsent ==
    /\ Game = <<>> /\ terminals = <<>> /\ memory = <<>> /\ stats = <<>>
    /\ lastOp = <<>> /\ marketCalls = <<>> /\ intents = <<>> /\ sold = {}
    /\ rebuilds = {} /\ ledger = <<>>

\* the scheduler's state after construction
InitScheduler ==
    /\ tick = 1
    /\ task = [w \in Workers |-> NoTask]
    /\ log = <<>>
    /\ prevLog = <<>>
    /\ firstPool = <<>>
    /\ spawnQueue = <<>>
    /\ created = <<>>
    /\ safeMode = FALSE
    /\ raised = FALSE
    /\ phases = <<>>
    /\ taskSets = [w \in Workers |-> 0]
    /\ chosen = [w \in Workers |-> NoTask]

InitCommon ==
    /\ InitScheduler
    /\ TraderAbsent

InitOverlord ==
    /\ InitCommon
    /\ energy = [w \in Workers |-> 0]
    /\ hatchery = BareHatchery
    /\ world \in Worlds
    /\ env = QuietEnv
    /\ pc = "hive"
    /\ objectivePriorities = OverlordPriorities
    /\ objectives = EmptyBuckets
    /\ resourceRequests = EmptyRequests
    /\ caps \in CapChoices
    /\ wpos \in WorkerPosChoices

\* ------------------------------------------- the ObjectiveGroup on its own
\* An ObjectiveGroup built over any priority list, filled by its producers and
\* queried by workers directly (a hauler asks its mining group's
\* objectiveGroup.assignTask).
PriorityConfigs ==
    { OverlordPriorities,
      << "supply", "repair", "build" >>,
      << "upgrade", "repair", "supply" >> }

ProducerSets ==
    { << Objective("supply", "sp1") >>,
      << Objective("repair", "r1") >>,
      << Objective("repair", "r2"), Objective("build", "s1") >>,
      << Objective("upgrade", "ctrl1"), Objective("supply", "sp2") >> }

GroupCapChoices == { {"supply"}, {"repair"}, {"supply", "repair", "build", "upgrade"} }

PoolSize(objs) == Len(Flatten([i \in 1..Len(OverlordPriorities) |-> objs[OverlordPriorities[i]]]))

PoolTargets(objs) ==
    { objs[b][i].target : << b, i >> \in { x \in BucketNames \X (1..MaxPool) : x[2] <= Len(objs[x[1]]) } }

EmptyWorld ==
    [ resourceOut |-> <<>>, resourceIn |-> <<>>, droppedEnergy |-> Nothing,
      hiveObjectives |-> <<>>, repairables |-> Nothing, structureSites |-> Nothing,
      roadSites |-> Nothing, barriers |-> Nothing,
      controller |-> [W1 |-> "none", W2 |-> "none"], incubator |-> FALSE ]

InitGroup ==
    /\ InitCommon
    /\ energy = [w \in Workers |-> 0]
    /\ hatchery = BareHatchery
    /\ world = EmptyWorld
    /\ env = QuietEnv
    /\ pc = "group"
    /\ objectivePriorities \in PriorityConfigs
    /\ objectives = EmptyBuckets
    /\ resourceRequests = EmptyRequests
    /\ caps \in [Workers -> GroupCapChoices]
    /\ wpos \in WorkerPosChoices

\* a producer calls objectiveGroup.registerObjectives(set)
GroupRegister(set) ==
    /\ pc = "group"
    /\ log = <<>>
    /\ \A i \in 1..Len(set) : set[i].type \in Range1(objectivePriorities)
    /\ PoolSize(objectives) + Len(set) <= MaxPool
    /\ \A i \in 1..Len(set) : set[i].target \notin PoolTargets(objectives)
    /\ objectives' = RegisterInto(objectives, set)
    /\ UNCHANGED << traderVars, world, env, tick, pc, objectivePriorities, resourceRequests,
                    workerVars, task, historyVars, effectVars >>

\* a worker calls objectiveGroup.assignTask(this)
GroupAssign(w) ==
    /\ pc = "group"
    /\ ~Queried(w)
    /\ GroupAssignTask(w)
    /\ UNCHANGED << traderVars, world, env, tick, pc, objectivePriorities, resourceRequests,
                    workerVars, prevLog, firstPool, effectVars >>

\* ------------------------------------------------------------ QueenOverlord
\* hatchery.transportRequests: the supply queue, each request with its target
\* and its declared urgency
Request(t, u) == [target |-> t, urgency |-> u]

SupplyChoices ==
    { <<>>,
      << Request("sp1", 1), Request("t1", 2) >>,
      << Request("sp1", 1), Request("sp2", 1), Request("c1", 0) >> }

HatcheryChoices ==
    { [link |-> "none", battery |-> "none"],
      [link |-> "none", battery |-> "some"],
      [link |-> "empty", battery |-> "empty"],
      [link |-> "empty", battery |-> "some"],
      [link |-> "some", battery |-> "some"],
      [link |-> "some", battery |-> "full"] }

QueueNames == { "supply", "withdraw" }

\* the requests of a queue that declare the highest urgency
MostUrgent(queue) ==
    { i \in 1..Len(queue) : \A j \in 1..Len(queue) : queue[j].urgency <= queue[i].urgency }

\* ResourceRequestGroup.getPrioritizedClosestRequest(position, queueName): the
\* requests it may return (none when the set is empty)
GetPrioritizedClosestRequest(rr, p, q) ==
    { i \in MostUrgent(rr[q]) :
        \A j \in MostUrgent(rr[q]) :
            Range(p, Pos(rr[q][i].target)) <= Range(p, Pos(rr[q][j].target)) }

HasLink(h) == h.link # "none"
HasBattery(h) == h.battery # "none"
LinkIsEmpty(h) == h.link = "empty"
BatteryIsEmpty(h) == h.battery = "empty"
BatteryIsFull(h) == h.battery = "full"

\* (mutant) the battery is tried before the link
RechargeActionsBatteryFirst(h) ==
    IF HasBattery(h) /\ ~BatteryIsEmpty(h) THEN << "withdraw", "battery" >>
    ELSE IF HasLink(h) /\ ~LinkIsEmpty(h) THEN << "withdraw", "link" >>
    ELSE << "recharge", "any" >>

\* QueenOverlord.rechargeActions
RechargeActions(h) ==
    IF HasLink(h) /\ ~LinkIsEmpty(h) THEN << "withdraw", "link" >>
    ELSE IF HasBattery(h) /\ ~BatteryIsEmpty(h) THEN << "withdraw", "battery" >>
    ELSE << "recharge", "any" >>

\* (mutant) the request is used without checking that there is one
SupplyActionsUnchecked(rr, h, p) ==
    IF GetPrioritizedClosestRequest(rr, p, "supply") # {}
    THEN { << "transfer", rr.supply[i].target >> :
             i \in GetPrioritizedClosestRequest(rr, p, "supply") }
    ELSE { << "transfer", "undefined" >> }

\* (mutant) the nearest request is taken, whatever its urgency
SupplyActionsNearest(rr, h, p) ==
    IF rr.supply # <<>>
    THEN { << "transfer", rr.supply[i].target >> :
             i \in { k \in 1..Len(rr.supply) :
                       \A j \in 1..Len(rr.supply) :
                           Range(p, Pos(rr.supply[k].target))
                             <= Range(p, Pos(rr.supply[j].target)) } }
    ELSE { RechargeActions(h) }

\* QueenOverlord.supplyActions: the tasks it may give the queen
SupplyActions(rr, h, p) ==
    IF GetPrioritizedClosestRequest(rr, p, "supply") # {}
    THEN { << "transfer", rr.supply[i].target >> :
             i \in GetPrioritizedClosestRequest(rr, p, "supply") }
    ELSE { RechargeActions(h) }

\* Zerg.hasValidTask: the task has a target and the creep's load allows it
HasValidTask(t, e, h) ==
    /\ t # NoTask
    /\ CASE t[1] = "transfer" ->
                e > 0 /\ (t[2] = "battery" => HasBattery(h) /\ ~BatteryIsFull(h))
          [] t[1] = "withdraw" ->
                /\ e < QueenCapacity
                /\ (t[2] = "link" => HasLink(h) /\ ~LinkIsEmpty(h))
                /\ (t[2] = "battery" => HasBattery(h) /\ ~BatteryIsEmpty(h))
          [] OTHER -> e < QueenCapacity

\* QueenOverlord.idleActions: the task of an idle queen (t when it sets none)
IdleActions(t, e, h) ==
    IF HasLink(h)
    THEN IF HasBattery(h) /\ ~BatteryIsFull(h) /\ ~LinkIsEmpty(h)
         THEN (IF e < QueenCapacity THEN << "withdraw", "link" >>
               ELSE << "transfer", "battery" >>)
         ELSE IF e < QueenCapacity
              THEN (IF ~LinkIsEmpty(h) THEN << "withdraw", "link" >>
                    ELSE IF HasBattery(h) /\ ~BatteryIsEmpty(h)
                         THEN << "withdraw", "battery" >>
                         ELSE t)
              ELSE t
    ELSE IF HasBattery(h) /\ e < QueenCapacity THEN << "withdraw", "battery" >>
         ELSE t

\* (mutant) supplyActions is called whatever the queen carries
HandleQueenAlwaysSupply(rr, h, p, e, held) ==
    { [first |-> t,
       task |-> (IF HasValidTask(t, e, h) THEN t ELSE IdleActions(t, e, h)),
       sets |-> (IF ~HasValidTask(t, e, h) /\ IdleActions(t, e, h) # t THEN 2 ELSE 1)] :
        t \in SupplyActions(rr, h, p) }

\* QueenOverlord.handleQueen for a queen that holds the task held: the task
\* it may hold afterwards, and how often its task was set
HandleQueen(rr, h, p, e, held) ==
    { [first |-> t,
       task |-> (IF HasValidTask(t, e, h) THEN t ELSE IdleActions(t, e, h)),
       sets |-> (IF ~HasValidTask(t, e, h) /\ IdleActions(t, e, h) # t THEN 2 ELSE 1)] :
        t \in (IF e > 0 THEN SupplyActions(rr, h, p) ELSE { RechargeActions(h) }) }

\* QueenOverlord.run: every queen is handled in turn; running the task or
\* walking to the idle position changes nothing before the tick ends
QueenRun ==
    /\ pc = "queen"
    /\ pc' = "queenRan"
    /\ \E f \in [Workers -> UNION { HandleQueen(resourceRequests, hatchery, wpos[w],
                                                energy[w], task[w]) : w \in Workers }] :
          /\ \A w \in Workers :
                f[w] \in HandleQueen(resourceRequests, hatchery, wpos[w], energy[w], task[w])
          /\ task' = [w \in Workers |-> f[w].task]
          /\ taskSets' = [w \in Workers |-> taskSets[w] + f[w].sets]
          /\ chosen' = [w \in Workers |-> f[w].first]
    /\ raised' = (raised \/ \E w \in Workers : task'[w][2] = "undefined")
    /\ UNCHANGED << traderVars, world, env, tick, groupVars, workerVars, historyVars,
                    spawnQueue, created, safeMode, phases >>

\* the end of a queen's tick: loads, the link and battery and the supply
\* requests are whatever the next tick finds
QueenTick ==
    /\ pc = "queenRan"
    /\ pc' = "queen"
    /\ tick' = IF tick < MaxTicks THEN tick + 1 ELSE tick
    /\ energy' \in [Workers -> 0..QueenCapacity]
    /\ hatchery' \in HatcheryChoices
    /\ \E sup \in SupplyChoices :
          resourceRequests' = [resourceRequests EXCEPT !.supply = sup]
    /\ raised' = FALSE
    /\ taskSets' = [w \in Workers |-> 0]
    /\ chosen' = [w \in Workers |-> NoTask]
    /\ UNCHANGED << traderVars, world, env, objectivePriorities, objectives, caps, wpos, task,
                    historyVars, spawnQueue, created, safeMode, phases >>

InitQueen ==
    /\ InitCommon
    /\ world = EmptyWorld
    /\ env = QuietEnv
    /\ pc = "queen"
    /\ objectivePriorities = OverlordPriorities
    /\ objectives = EmptyBuckets
    /\ \E sup \in SupplyChoices : resourceRequests = [EmptyRequests EXCEPT !.supply = sup]
    /\ caps = [w \in Workers |-> {}]
    /\ wpos = [w \in Workers |-> (4 * (w - 1)) % 11]
    /\ energy \in [Workers -> 0..QueenCapacity]
    /\ hatchery \in HatcheryChoices

\* ----------------------------------------------------------- specification
\* The Overlord's ticks, and an ObjectiveGroup used on its own.
Init == InitOverlord \/ InitGroup

Next ==
    \/ Construct
    \/ HiveClustersInit
    \/ OverlordInit
    \/ \E w \in Workers : AssignTask(w)
    \/ OverlordRun
    \/ NextTick
    \/ \E set \in ProducerSets : GroupRegister(set)
    \/ \E w \in Workers : GroupAssign(w)

Spec == Init /\ [][Next]_vars

\* ------------------------------------------------ ticks of a changing colony
Hostile(p, o) == [pos |-> p, owner |-> o]

\* spawn energy, storage energy (-1: no storage), suppliers and miners
EnergyCases ==
    { << EMERGENCY_ENERGY_THRESHOLD - 1, -1, 0, 0 >>,
      << EMERGENCY_ENERGY_THRESHOLD - 1, -1, 1, 0 >>,
      << EMERGENCY_ENERGY_THRESHOLD, -1, 0, 0 >>,
      << EMERGENCY_ENERGY_THRESHOLD - 1, -1, 0, 1 >>,
      << EMERGENCY_ENERGY_THRESHOLD - 1, EMERGENCY_ENERGY_THRESHOLD, 1, 0 >>,
      << EMERGENCY_ENERGY_THRESHOLD - 1, EMERGENCY_ENERGY_THRESHOLD + 1, 1, 0 >>,
      << EMERGENCY_ENERGY_THRESHOLD - 1, EMERGENCY_ENERGY_THRESHOLD + 1, 0, 0 >> }

HostileChoices ==
    { NoHostiles,
      [NoHostiles EXCEPT !["W2"] = << Hostile(4, "Invader") >>],
      [NoHostiles EXCEPT !["W3"] = << Hostile(7, "Invader"), Hostile(2, "Invader") >>],
      [NoHostiles EXCEPT !["W2"] = << Hostile(7, "Invader"), Hostile(2, "Invader") >>,
                         !["W3"] = << Hostile(4, "Invader") >>] }

FlagChoices ==
    { NoFlags,
      [NoFlags EXCEPT !["W1"] = << "other" >>, !["W2"] = << "other" >>],
      [NoFlags EXCEPT !["W1"] = << "emergency" >>, !["W2"] = << "guard" >>] }

\* the colony as a tick may find it, its flags being fl
EnvWith(ec, inc, hat, hos, fl) ==
    [ QuietEnv EXCEPT !.energyAvailable = ec[1], !.storageEnergy = ec[2],
                      !.creeps = Creeps(ec[3], ec[4], 0, 0),
                      !.isIncubating = inc, !.hatchery = hat,
                      !.hostiles = hos, !.flags = fl ]

\* is the colony incubating, has it a hatchery
ColonyCases == { << FALSE, TRUE >>, << TRUE, TRUE >>, << FALSE, FALSE >> }

\* a directive that has done its work removes its flag: the flags stay, or
\* those of the colony room, of the other rooms, or of all rooms are gone
FlagsLeft(fl) ==
    { [r \in AllRooms |-> IF r \in gone THEN <<>> ELSE fl[r]] :
        gone \in { {}, {ColonyRoom}, AllRooms \ {ColonyRoom}, AllRooms } }

\* the end of a tick after which the colony has changed
ColonyTick ==
    \E ec \in EnergyCases, cc \in ColonyCases, hos \in HostileChoices :
        \E fl \in FlagsLeft(WithPlacedFlags(env).flags) :
            EndTick(EnvWith(ec, cc[1], cc[2], hos, fl))

InitDirectives ==
    /\ InitCommon
    /\ energy = [w \in Workers |-> 0]
    /\ hatchery = BareHatchery
    /\ world = EmptyWorld
    /\ \E ec \in EnergyCases, cc \in ColonyCases, hos \in HostileChoices :
          \E fl \in FlagChoices : env = EnvWith(ec, cc[1], cc[2], hos, fl)
    /\ pc = "hive"
    /\ objectivePriorities = OverlordPriorities
    /\ objectives = EmptyBuckets
    /\ resourceRequests = EmptyRequests
    /\ caps = [w \in Workers |-> BucketNames]
    /\ wpos = [w \in Workers |-> 5]

NextDirectives ==
    \/ Construct
    \/ HiveClustersInit
    \/ OverlordInit
    \/ OverlordRun
    \/ ColonyTick

SpecDirectives == InitDirectives /\ [][NextDirectives]_vars

\* ------------------------------------------- ticks of an incomplete colony
\* the colony room's barriers, its controller and the colony's incubator
InfraWorld(bs, ctrl, inc) ==
    [ EmptyWorld EXCEPT !.barriers = [W1 |-> bs, W2 |-> <<>>],
                        !.controller = [W1 |-> ctrl, W2 |-> "none"],
                        !.incubator = inc ]

InfraWorlds ==
    { InfraWorld(<< Barrier("b1", CriticalBarrierHits - 1), Barrier("b3", 9000) >>, "ctrl1", FALSE),
      InfraWorld(<< Barrier("b1", CriticalBarrierHits - 1), Barrier("b3", 9000) >>, "none", FALSE),
      InfraWorld(<< Barrier("b1", CriticalBarrierHits) >>, "ctrl1", FALSE),
      InfraWorld(<< Barrier("b1", CriticalBarrierHits - 1) >>, "ctrl1", TRUE),
      InfraWorld(<< Barrier("b1", CriticalBarrierHits - 1) >>, "none", TRUE),
      InfraWorld(<<>>, "none", FALSE) }

\* what the colony may have of hatchery, storage, terminal and labs
Infrastructure == SUBSET { "hatchery", "storage", "terminal", "labs" }

\* hostiles of the colony room
RoomHostileChoices ==
    { NoHostiles,
      [NoHostiles EXCEPT !["W1"] = << Hostile(4, "Invader") >>],
      [NoHostiles EXCEPT !["W1"] = << Hostile(4, "Invader"), Hostile(7, "player") >>],
      [NoHostiles EXCEPT !["W1"] = << Hostile(7, "player") >>,
                         !["W2"] = << Hostile(2, "Invader") >>] }

\* the live creeps with role worker and with role mineralSupplier
WorkerCounts == 0..3
MineralSupplierCounts == 0..1

\* the colony with the infrastructure infra
InfraEnv(infra, nw, nms, hos, fl) ==
    [ QuietEnv EXCEPT !.hatchery = ("hatchery" \in infra),
                      !.terminal = ("terminal" \in infra),
                      !.labs = (IF "labs" \in infra THEN 1 ELSE 0),
                      !.storageUnits = (IF "storage" \in infra THEN 1 ELSE 0),
                      !.storageEnergy = (IF "storage" \in infra
                                         THEN EMERGENCY_ENERGY_THRESHOLD ELSE -1),
                      !.creeps = Creeps(0, 1, nw, nms),
                      !.hostiles = hos, !.flags = fl ]

\* the end of a tick: creeps were born or died, hostiles came or went
InfraTick ==
    \E nw \in WorkerCounts, nms \in MineralSupplierCounts, hos \in RoomHostileChoices :
        EndTick([WithPlacedFlags(env) EXCEPT !.creeps = Creeps(0, 1, nw, nms),
                                             !.hostiles = hos])

InitInfra ==
    /\ InitCommon
    /\ energy = [w \in Workers |-> 0]
    /\ hatchery = BareHatchery
    /\ world \in InfraWorlds
    /\ \E infra \in Infrastructure, nw \in WorkerCounts, nms \in MineralSupplierCounts,
          hos \in RoomHostileChoices :
          env = InfraEnv(infra, nw, nms, hos, NoFlags)
    /\ pc = "hive"
    /\ objectivePriorities = OverlordPriorities
    /\ objectives = EmptyBuckets
    /\ resourceRequests = EmptyRequests
    /\ caps = [w \in Workers |-> BucketNames]
    /\ wpos = [w \in Workers |-> 5]

NextInfra ==
    \/ Construct
    \/ HiveClustersInit
    \/ OverlordInit
    \/ OverlordRun
    \/ InfraTick

SpecInfra == InitInfra /\ [][NextInfra]_vars

\* The queens' ticks, and an ObjectiveGroup used on its own.
InitQueens == InitQueen \/ InitGroup

NextQueens ==
    \/ QueenRun
    \/ QueenTick
    \/ \E set \in ProducerSets : GroupRegister(set)
    \/ \E w \in Workers : GroupAssign(w)

SpecQueen == InitQueens /\ [][NextQueens]_vars

\* ================================================================ TraderJoe
\* The trade network. Prices are in thousandths of a credit, Game.market.credits
\* in credits.

\* TraderJoe.settings
CacheTimeout == 25
ReserveCredits == 10000
OrdersTimeout == 100000
CleanupAmount == 10

\* the literals of buildMarketCache, lookForGoodDeals, maintainSellOrder and
\* buyMineral
TinyOrderAmount == 1000
GoodDealAmount == 5000
GoodDealPowerAmount == 100
GoodDealLimit == 10000
ExtendBelow == 2000
MinTerminalEnergy == 10000
TERMINAL_MIN_SEND == 100

\* maxMarketPrices
maxMarketPrices ==
    [default |-> 5000, H |-> 300, O |-> 250, U |-> 300, L |-> 250, K |-> 250,
     Z |-> 250, X |-> 500]

\* maxMarketPrices[mineralType] || maxMarketPrices.default
MaxPrice(mineralType) ==
    IF mineralType \in DOMAIN maxMarketPrices /\ maxMarketPrices[mineralType] # 0
    THEN maxMarketPrices[mineralType]
    ELSE maxMarketPrices.default

\* Game.shard.name.includes('shard')
ShardNames == { "shard2", "screepsplus1" }
OnMMO(G) == G.shard \in { "shard0", "shard1", "shard2", "shard3" }

\* the colonies' terminal rooms, and a room of another player
TerminalRooms == { "W1N1", "W2N2" }
RoomIndex == [W1N1 |-> 1, W2N2 |-> 2, W9N9 |-> 9]
RoomDistance(a, b) == Abs(RoomIndex[a] - RoomIndex[b])

\* Game.market.calcTransactionCost(amount, a, b): the energy a transfer takes,
\* amount * (1 - exp(-distance / 30)) rounded up, the factor in thousandths
TransferLoss == [d \in 0..8 |-> << 0, 33, 65, 95, 125, 154, 181, 208, 234 >>[d + 1]]
CalcTransactionCost(amount, a, b) ==
    (amount * TransferLoss[RoomDistance(a, b)] + 999) \div 1000

\* an order of Game.market.getAllOrders or Game.market.orders
Order(id, type, res, price, amount, room, active, remaining, made) ==
    [id |-> id, type |-> type, resourceType |-> res, price |-> price,
     amount |-> amount, roomName |-> room, active |-> active,
     remainingAmount |-> remaining, created |-> made]

\* an order another player placed
Placed(id, type, res, price, amount) ==
    Order(id, type, res, price, amount, "W9N9", TRUE, amount, 0)

IsActive(o) == o.active

\* Game.market.getAllOrders(): the other players' orders and the own active ones
GetAllOrders(G) == G.market \o SelectSeq(G.orders, IsActive)

Elements(s) == { s[i] : i \in 1..Len(s) }
Highest(S) == CHOOSE x \in S : \A y \in S : y <= x
Lowest(S) == CHOOSE x \in S : \A y \in S : x <= y

\* the cache of TraderMemoryDefaults and of invalidateMarketCache
EmptyCache == [sell |-> <<>>, buy |-> <<>>, tick |-> 0]

\* (mutant) the cache is left without the tick it was built at
BuildMarketCacheUnstamped(G) ==
    EmptyCache

\* TraderJoe.buildMarketCache: the highest and lowest price of the orders of
\* each resource, the own active orders and the tiny orders left out
BuildMarketCache(G) ==
    LET mine == { o.id : o \in { x \in Elements(G.orders) : x.active } }
        all == { o \in Elements(GetAllOrders(G)) :
                   o.id \notin mine /\ o.amount >= TinyOrderAmount }
        prices(type, r) == { o.price : o \in { x \in all : x.type = type /\ x.resourceType = r } }
        traded(type) == { o.resourceType : o \in { x \in all : x.type = type } }
    IN  [sell |-> [r \in traded("sell") |->
                     [high |-> Highest(prices("sell", r)), low |-> Lowest(prices("sell", r))]],
         buy |-> [r \in traded("buy") |->
                     [high |-> Highest(prices("buy", r)), low |-> Lowest(prices("buy", r))]],
         tick |-> G.time]

\* TraderJoe.init
TraderInit ==
    /\ pc = "trader"
    /\ pc' = "trading"
    /\ IF Game.time - memory.cache.tick > CacheTimeout
       THEN /\ memory' = [memory EXCEPT !.cache = BuildMarketCache(Game)]
            /\ rebuilds' = rebuilds \cup { Game.time }
       ELSE UNCHANGED << memory, rebuilds >>
    /\ UNCHANGED << world, env, tick, groupVars, workerVars, task, historyVars,
                    effectVars, Game, terminals, stats, lastOp, marketCalls,
                    intents, sold, ledger >>

\* a call of Game.market
Deal(id, amount, room) ==
    [call |-> "deal", id |-> id, resourceType |-> "", price |-> 0,
     amount |-> amount, roomName |-> room]
CreateOrder(res, price, amount, room) ==
    [call |-> "createOrder", id |-> 0, resourceType |-> res, price |-> price,
     amount |-> amount, roomName |-> room]
ChangeOrderPrice(id, price) ==
    [call |-> "changeOrderPrice", id |-> id, resourceType |-> "", price |-> price,
     amount |-> 0, roomName |-> ""]
ExtendOrder(id, amount) ==
    [call |-> "extendOrder", id |-> id, resourceType |-> "", price |-> 0,
     amount |-> amount, roomName |-> ""]
CancelOrder(id) ==
    [call |-> "cancelOrder", id |-> id, resourceType |-> "", price |-> 0,
     amount |-> 0, roomName |-> ""]

\* a terminal
Terminal(cooldown, stored, free) == [cooldown |-> cooldown, energy |-> stored, free |-> free]

\* minBy(orders, order => order.price): the first of the cheapest orders, as a
\* sequence of one order, or of none when there is no order
MinByPrice(os) ==
    IF os = <<>> THEN <<>>
    ELSE << os[CHOOSE i \in 1..Len(os) :
                 /\ \A j \in 1..Len(os) : os[i].price <= os[j].price
                 /\ \A j \in 1..(i - 1) : os[i].price < os[j].price] >>

\* effectiveBuyPrice(order, terminal), in hundred-thousandths of a credit
EffectiveBuyPrice(o, room) ==
    100 * o.price - CalcTransactionCost(1000, o.roomName, room)

\* maxBy(orders, order => this.effectiveBuyPrice(order, terminal)): the first
\* of the best-paying orders, as a sequence of one order or of none
MaxByEffectiveBuyPrice(os, room) ==
    IF os = <<>> THEN <<>>
    ELSE << os[CHOOSE i \in 1..Len(os) :
                 /\ \A j \in 1..Len(os) :
                       EffectiveBuyPrice(os[j], room) <= EffectiveBuyPrice(os[i], room)
                 /\ \A j \in 1..(i - 1) :
                       EffectiveBuyPrice(os[j], room) < EffectiveBuyPrice(os[i], room)] >>

Larger(a, b) == IF a >= b THEN a ELSE b
Smaller(a, b) == IF a <= b THEN a ELSE b

\* the buy or sell orders for a resource that offer at least an amount
OrdersFor(G, type, res, amount) ==
    LET Wanted(o) == o.type = type /\ o.resourceType = res /\ o.amount >= amount
    IN  SelectSeq(GetAllOrders(G), Wanted)

\* this.memory.cache.sell[resource].low, as a sequence of one price, or of
\* none when the cache has no sell price for the resource
MarketLow(cache, res) ==
    IF res \in DOMAIN cache.sell THEN << cache.sell[res].low >> ELSE <<>>

\* TraderJoe.lookForGoodDeals (margin 1.25): the Game.market calls it makes
LookForGoodDeals(G, cache, t, room, mineral) ==
    IF G.credits < ReserveCredits THEN <<>>
    ELSE
    LET amount == IF mineral = "power" THEN GoodDealPowerAmount ELSE GoodDealAmount
        ordersForMineral == OrdersFor(G, "buy", mineral, amount)
        marketLow == MarketLow(cache, mineral)
        order == MaxByEffectiveBuyPrice(ordersForMineral, room)
    IN  IF marketLow = <<>> THEN <<>>
        ELSE IF order # <<>> /\ 4 * order[1].price > 5 * marketLow[1]
             THEN LET dealt == Smaller(order[1].amount, GoodDealLimit)
                  IN  IF t.energy > CalcTransactionCost(dealt, room, order[1].roomName)
                      THEN << Deal(order[1].id, dealt, room) >>
                      ELSE <<>>
             ELSE <<>>

\* TraderJoe.sellDirectly
SellDirectly(G, t, room, resource, amount) ==
    LET ordersForMineral == OrdersFor(G, "buy", resource, amount)
        order == MaxByEffectiveBuyPrice(ordersForMineral, room)
    IN  IF order # <<>>
        THEN LET sellAmount == Smaller(order[1].amount, amount)
             IN  IF t.energy > CalcTransactionCost(sellAmount, room, order[1].roomName)
                 THEN << Deal(order[1].id, sellAmount, room) >>
                 ELSE <<>>
        ELSE <<>>

\* the own sell orders for a resource placed from a room
MySellOrders(G, room, resource) ==
    LET Mine(o) == o.type = "sell" /\ o.resourceType = resource /\ o.roomName = room
    IN  SelectSeq(G.orders, Mine)

\* maintainSellOrder's loop over the own sell orders
RECURSIVE MaintainOrders(_, _, _)
MaintainOrders(os, marketLow, amount) ==
    IF os = <<>> THEN <<>>
    ELSE (IF os[1].price > marketLow \/ (os[1].price < marketLow /\ os[1].remainingAmount = 0)
          THEN << ChangeOrderPrice(os[1].id, marketLow) >> ELSE <<>>)
         \o (IF os[1].remainingAmount < ExtendBelow
             THEN << ExtendOrder(os[1].id, amount - os[1].remainingAmount) >> ELSE <<>>)
         \o MaintainOrders(Tail(os), marketLow, amount)

\* (mutant) an order is created whether or not there is one already
MaintainSellOrderAnew(G, cache, room, resource, amount) ==
    LET marketLow == MarketLow(cache, resource)
    IN  IF marketLow = <<>> \/ marketLow = << 0 >> THEN <<>>
        ELSE << CreateOrder(resource, marketLow[1], amount, room) >>

\* TraderJoe.maintainSellOrder
MaintainSellOrder(G, cache, room, resource, amount) ==
    LET marketLow == MarketLow(cache, resource)
        mySellOrders == MySellOrders(G, room, resource)
    IN  IF marketLow = <<>> \/ marketLow = << 0 >> THEN <<>>
        ELSE IF Len(mySellOrders) > 0
             THEN MaintainOrders(mySellOrders, marketLow[1], amount)
             ELSE << CreateOrder(resource, marketLow[1], amount, room) >>

\* TraderJoe.sell
Sell(G, cache, t, room, resource, amount) ==
    IF G.credits < ReserveCredits
    THEN SellDirectly(G, t, room, resource, amount)
    ELSE MaintainSellOrder(G, cache, room, resource, amount)

\* (mutant) the reserve of credits is not looked at
BuyMineralUnreserved(G, t, room, mineralType, amount) ==
    IF t.cooldown > 0 THEN <<>>
    ELSE
    LET needed == Larger(amount, TERMINAL_MIN_SEND)
        bestOrder == MinByPrice(OrdersFor(G, "sell", mineralType, needed))
    IN  IF t.energy < MinTerminalEnergy \/ t.free < needed THEN <<>>
        ELSE IF bestOrder # <<>> /\ (OnMMO(G) => bestOrder[1].price <= MaxPrice(mineralType))
             THEN << Deal(bestOrder[1].id, needed, room) >>
             ELSE <<>>

\* TraderJoe.buyMineral
BuyMineral(G, t, room, mineralType, amount) ==
    IF G.credits < ReserveCredits \/ t.cooldown > 0 THEN <<>>
    ELSE
    LET needed == Larger(amount, TERMINAL_MIN_SEND)
        bestOrder == MinByPrice(OrdersFor(G, "sell", mineralType, needed))
    IN  IF t.energy < MinTerminalEnergy \/ t.free < needed THEN <<>>
        ELSE IF bestOrder # <<>> /\ (OnMMO(G) => bestOrder[1].price <= MaxPrice(mineralType))
             THEN << Deal(bestOrder[1].id, needed, room) >>
             ELSE <<>>

\* a transaction of Game.market.incomingTransactions or outgoingTransactions;
\* price is the price of transaction.order, ordered tells whether there is one
Transaction(time, res, amount, price, ordered) ==
    [time |-> time, resourceType |-> res, amount |-> amount, price |-> price,
     order |-> ordered]

\* the transactions recordStats' loop looks at before it breaks
RECURSIVE FromLastTick(_, _)
FromLastTick(ts, time) ==
    IF ts = <<>> \/ ts[1].time < time THEN <<>>
    ELSE << ts[1] >> \o FromLastTick(Tail(ts), time)

\* the body of recordStats' loop for one transaction
AddTransaction(totals, t) ==
    IF ~t.order THEN totals
    ELSE [r \in DOMAIN totals \cup { t.resourceType } |->
            IF r # t.resourceType THEN totals[r]
            ELSE IF r \in DOMAIN totals
                 THEN [amount |-> totals[r].amount + t.amount,
                       credits |-> totals[r].credits + t.amount * t.price]
                 ELSE [amount |-> t.amount, credits |-> t.amount * t.price]]

RECURSIVE AddTransactions(_, _)
AddTransactions(totals, ts) ==
    IF ts = <<>> THEN totals
    ELSE AddTransactions(AddTransaction(totals, ts[1]), Tail(ts))

\* TraderStatsDefaults
EmptyStats == [credits |-> 0, bought |-> <<>>, sold |-> <<>>]

\* (mutant) every listed transaction is counted, whatever its time
RecordStatsUncut(G, st) ==
    [credits |-> G.credits,
     bought |-> AddTransactions(st.bought, G.incomingTransactions),
     sold |-> AddTransactions(st.sold, G.outgoingTransactions)]

\* TraderJoe.recordStats
RecordStats(G, st) ==
    [credits |-> G.credits,
     bought |-> AddTransactions(st.bought, FromLastTick(G.incomingTransactions, G.time - 1)),
     sold |-> AddTransactions(st.sold, FromLastTick(G.outgoingTransactions, G.time - 1))]

\* Overmind.colonies: the rooms of the living colonies
Colonies == TerminalRooms

\* TraderJoe.cleanUpInactiveOrders
CleanUpInactiveOrders(G) ==
    LET ToClean(o) ==
            \/ o.type = "sell" /\ ~o.active /\ o.remainingAmount = 0
            \/ G.time - o.created > OrdersTimeout /\ o.remainingAmount < CleanupAmount
            \/ o.roomName \notin Colonies
        ordersToClean == SelectSeq(G.orders, ToClean)
    IN  [i \in 1..Len(ordersToClean) |-> CancelOrder(ordersToClean[i].id)]

\* the Game.market calls that change the own orders
IsOrderCall(c) == c.call # "deal"

\* the TraderJoe method called last
Op(name, room, res, amount) ==
    [name |-> name, room |-> room, resourceType |-> res, amount |-> amount]

\* TraderJoe.run
TraderRun ==
    /\ pc = "trading"
    /\ pc' = "traded"
    /\ lastOp' = Op("run", "", "", 0)
    /\ marketCalls' = (IF Game.time % 10 = 0 THEN CleanUpInactiveOrders(Game) ELSE <<>>)
    /\ intents' = intents \o marketCalls'
    /\ stats' = RecordStats(Game, stats)
    /\ UNCHANGED << world, env, tick, groupVars, workerVars, task, historyVars,
                    effectVars, Game, terminals, memory, sold, rebuilds, ledger >>

\* the resources traded, and the arguments of the calls
BuyMinerals == { "H", "G" }
BuyAmounts == { 50, 200 }
DealMinerals == { "H", "power" }
SellResources == { "H" }
SellAmount == 10000

\* the terminal network calls buyMineral for a terminal
TradeBuyMineral(room, mineralType, amount) ==
    /\ pc = "trading"
    /\ lastOp' = Op("buyMineral", room, mineralType, amount)
    /\ marketCalls' = BuyMineral(Game, terminals[room], room, mineralType, amount)
    /\ UNCHANGED << world, env, tick, pc, groupVars, workerVars, task, historyVars,
                    effectVars, Game, terminals, memory, stats, intents, sold,
                    rebuilds, ledger >>

\* the terminal network calls lookForGoodDeals for a terminal
TradeLookForGoodDeals(room, mineral) ==
    /\ pc = "trading"
    /\ lastOp' = Op("lookForGoodDeals", room, mineral, 0)
    /\ marketCalls' = LookForGoodDeals(Game, memory.cache, terminals[room], room, mineral)
    /\ UNCHANGED << world, env, tick, pc, groupVars, workerVars, task, historyVars,
                    effectVars, Game, terminals, memory, stats, intents, sold,
                    rebuilds, ledger >>

\* the terminal network calls sell for a terminal, once in a tick for each
\* room and resource
TradeSell(room, resource) ==
    /\ pc = "trading"
    /\ << room, resource >> \notin sold
    /\ sold' = sold \cup { << room, resource >> }
    /\ lastOp' = Op("sell", room, resource, SellAmount)
    /\ marketCalls' = Sell(Game, memory.cache, terminals[room], room, resource, SellAmount)
    /\ intents' = intents \o SelectSeq(marketCalls', IsOrderCall)
    /\ UNCHANGED << world, env, tick, pc, groupVars, workerVars, task, historyVars,
                    effectVars, Game, terminals, memory, stats, rebuilds, ledger >>

\* the own orders after the tick's order calls took effect; the k-th call of
\* the tick that creates an order gives it an id of its own
RECURSIVE ApplyIntents(_, _, _, _)
ApplyIntents(orders, calls, time, k) ==
    IF calls = <<>> THEN orders
    ELSE LET c == calls[1]
             Kept(o) == o.id # c.id
             changed ==
               CASE c.call = "createOrder" ->
                      Append(orders, Order((time % 100) * 10 + k, "sell", c.resourceType,
                                           c.price, c.amount, c.roomName, TRUE,
                                           c.amount, time))
                 [] c.call = "changeOrderPrice" ->
                      [i \in 1..Len(orders) |->
                         IF orders[i].id = c.id THEN [orders[i] EXCEPT !.price = c.price]
                         ELSE orders[i]]
                 [] c.call = "extendOrder" ->
                      [i \in 1..Len(orders) |->
                         IF orders[i].id = c.id
                         THEN [orders[i] EXCEPT !.remainingAmount = @ + c.amount,
                                                !.amount = @ + c.amount,
                                                !.active = TRUE]
                         ELSE orders[i]]
                 [] OTHER -> SelectSeq(orders, Kept)
         IN  ApplyIntents(changed, Tail(calls), time, k + 1)

\* no TraderJoe method was called yet in this tick
NoOp == Op("", "", "", 0)

\* the scheduler's state in the runs of the trade network
SchedulerIdle ==
    /\ InitScheduler
    /\ world = EmptyWorld
    /\ env = QuietEnv
    /\ objectivePriorities = OverlordPriorities
    /\ objectives = EmptyBuckets
    /\ resourceRequests = EmptyRequests
    /\ caps = [w \in Workers |-> {}]
    /\ wpos = [w \in Workers |-> 0]
    /\ energy = [w \in Workers |-> 0]
    /\ hatchery = BareHatchery

\* new TraderJoe(), before its first call in a tick
InitTrader ==
    /\ SchedulerIdle
    /\ pc = "trader"
    /\ lastOp = NoOp
    /\ marketCalls = <<>>
    /\ intents = <<>>
    /\ sold = {}
    /\ rebuilds = {}

\* the orders the other players have on the market
MarketChoices ==
    { <<>>,
      << Placed(1, "sell", "H", 310, 5000), Placed(2, "sell", "H", 280, 150),
         Placed(3, "sell", "H", 300, 3000), Placed(4, "buy", "H", 400, 6000),
         Order(5, "buy", "H", 400, 12000, "W2N2", TRUE, 12000, 0),
         Placed(6, "sell", "G", 5001, 2000), Placed(7, "buy", "power", 9000, 100) >>,
      << Placed(1, "sell", "H", 310, 5000), Placed(4, "buy", "H", 380, 6000),
         Placed(8, "sell", "power", 7000, 1000) >> }

\* the terminals: of W1N1 ready, on cooldown, short of energy or of space
TerminalChoices ==
    { [r \in TerminalRooms |-> IF r = "W1N1" THEN t ELSE Terminal(0, 20000, 5000)] :
        t \in { Terminal(0, 10000, 200), Terminal(1, 10000, 200), Terminal(0, 9999, 200),
                Terminal(0, 10000, 199), Terminal(0, 10000, 99) } }

ReadyTerminals == [r \in TerminalRooms |-> Terminal(0, 20000, 5000)]

\* Game.market.credits around the reserve
CreditChoices == { 9999, 10000 }

\* Game.market.orders at the first tick: none, an order to maintain, an order
\* sold out, an order of a colony that died
OwnOrderChoices ==
    { <<>>,
      << Order(20, "sell", "H", 320, 10000, "W1N1", TRUE, 1500, 10) >>,
      << Order(21, "sell", "H", 290, 10000, "W2N2", FALSE, 0, 10),
         Order(22, "sell", "H", 300, 10000, "W9N9", TRUE, 5, 10) >> }

MarketGame(time, shard, credits, market, orders) ==
    [time |-> time, shard |-> shard, credits |-> credits, market |-> market,
     orders |-> orders, incomingTransactions |-> <<>>, outgoingTransactions |-> <<>>]

\* ------------------------------------------------ ledger of all transactions
TradedResources == { "H", "O", "energy" }

RECURSIVE Total(_, _, _)
Total(ts, r, inCredits) ==
    IF ts = <<>> THEN 0
    ELSE (IF ts[1].order /\ ts[1].resourceType = r
          THEN (IF inCredits THEN ts[1].amount * ts[1].price ELSE ts[1].amount)
          ELSE 0) + Total(Tail(ts), r, inCredits)

Totals(ts) ==
    [r \in TradedResources |-> [amount |-> Total(ts, r, FALSE), credits |-> Total(ts, r, TRUE)]]

Plus(a, b) ==
    [r \in TradedResources |-> [amount |-> a[r].amount + b[r].amount,
                                credits |-> a[r].credits + b[r].credits]]

\* stats.bought[resourceType] or stats.sold[resourceType], nothing counted when absent
StatOf(totals, r) ==
    IF r \in DOMAIN totals THEN totals[r] ELSE [amount |-> 0, credits |-> 0]

\* the transactions of one tick, to be stamped with its time
BatchChoices ==
    { <<>>,
      << Transaction(0, "H", 100, 300, TRUE) >>,
      << Transaction(0, "H", 100, 300, TRUE), Transaction(0, "energy", 500, 0, FALSE),
         Transaction(0, "O", 50, 250, TRUE) >> }

Stamped(batch, time) == [i \in 1..Len(batch) |-> [batch[i] EXCEPT !.time = time]]

\* ------------------------------------------------------------------- ticks
\* the next tick of a colony that trades: the order calls took effect, the
\* credits changed, and the first own order may have been sold out
MarketTick ==
    /\ pc = "traded"
    /\ tick < MaxTicks
    /\ tick' = tick + 1
    /\ pc' = "trader"
    /\ \E cr \in CreditChoices, soldOut \in BOOLEAN :
          LET applied == ApplyIntents(Game.orders, intents, Game.time, 1)
          IN  Game' = [Game EXCEPT
                         !.time = @ + 1,
                         !.credits = cr,
                         !.orders = IF soldOut /\ applied # <<>>
                                    THEN [applied EXCEPT ![1].remainingAmount = 0,
                                                         ![1].active = FALSE]
                                    ELSE applied]
    /\ lastOp' = NoOp
    /\ marketCalls' = <<>>
    /\ intents' = <<>>
    /\ sold' = {}
    /\ UNCHANGED << world, env, groupVars, workerVars, task, historyVars, effectVars,
                    terminals, memory, stats, rebuilds, ledger >>

\* the next tick of a colony whose transactions are recorded: the tick's
\* transactions head the lists
StatsTick ==
    /\ pc = "traded"
    /\ tick < MaxTicks
    /\ tick' = tick + 1
    /\ pc' = "trader"
    /\ \E bin \in BatchChoices, bout \in BatchChoices :
          /\ Game' = [Game EXCEPT
                        !.time = @ + 1,
                        !.incomingTransactions = Stamped(bin, Game.time) \o @,
                        !.outgoingTransactions = Stamped(bout, Game.time) \o @]
          /\ ledger' = [bought |-> Plus(ledger.bought, Totals(bin)),
                        sold |-> Plus(ledger.sold, Totals(bout))]
    /\ lastOp' = NoOp
    /\ marketCalls' = <<>>
    /\ intents' = <<>>
    /\ sold' = {}
    /\ UNCHANGED << world, env, groupVars, workerVars, task, historyVars, effectVars,
                    terminals, memory, stats, rebuilds >>

\* the next tick of a colony that only keeps its cache
CacheTick ==
    /\ pc = "traded"
    /\ Game.time < MaxTime
    /\ pc' = "trader"
    /\ Game' = [Game EXCEPT !.time = @ + 1]
    /\ lastOp' = NoOp
    /\ marketCalls' = <<>>
    /\ intents' = <<>>
    /\ sold' = {}
    /\ UNCHANGED << world, env, tick, groupVars, workerVars, task, historyVars,
                    effectVars, terminals, memory, stats, rebuilds, ledger >>

\* ----------------------------------------------------------- the cache kept
CacheStartTimes == { 1, 30 }

\* the cache a tick may find: never built, or built at an earlier tick
CachesAt(G) ==
    { EmptyCache } \cup
    { [BuildMarketCache(G) EXCEPT !.tick = t] :
        t \in { x \in { G.time - 26, G.time - 25, G.time - 1 } : x >= 1 } }

InitCache ==
    /\ InitTrader
    /\ \E time \in CacheStartTimes, market \in MarketChoices :
          Game = MarketGame(time, "shard2", 10000, market, <<>>)
    /\ memory \in { [cache |-> c] : c \in CachesAt(Game) }
    /\ terminals = ReadyTerminals
    /\ stats = EmptyStats
    /\ ledger = [bought |-> Totals(<<>>), sold |-> Totals(<<>>)]

NextCache ==
    \/ TraderInit
    \/ TraderRun
    \/ CacheTick

SpecCache == InitCache /\ [][NextCache]_vars

\* ------------------------------------------------------------ the market
MarketStartTime == 100029

\* the colony whose terminal buys, the other colony's terminal being ready
BuyRooms == { "W1N1" }

\* a cache built a tick ago, over another market
YesterdaysCache ==
    BuildMarketCache(MarketGame(MarketStartTime - 1, "shard2", 10000,
                                << Placed(1, "sell", "H", 310, 5000),
                                   Placed(4, "buy", "H", 380, 6000),
                                   Placed(8, "sell", "power", 7000, 1000) >>, <<>>))

InitMarket ==
    /\ InitTrader
    /\ \E shard \in ShardNames, cr \in CreditChoices, market \in MarketChoices,
          orders \in OwnOrderChoices :
          Game = MarketGame(MarketStartTime, shard, cr, market, orders)
    /\ memory \in { [cache |-> c] : c \in { EmptyCache, YesterdaysCache } }
    /\ terminals \in TerminalChoices
    /\ stats = EmptyStats
    /\ ledger = [bought |-> Totals(<<>>), sold |-> Totals(<<>>)]

NextMarket ==
    \/ TraderInit
    \/ \E room \in BuyRooms, mineralType \in BuyMinerals, amount \in BuyAmounts :
          TradeBuyMineral(room, mineralType, amount)
    \/ \E room \in BuyRooms, mineral \in DealMinerals :
          TradeLookForGoodDeals(room, mineral)
    \/ \E room \in TerminalRooms, resource \in SellResources :
          TradeSell(room, resource)
    \/ TraderRun
    \/ MarketTick

SpecMarket == InitMarket /\ [][NextMarket]_vars

\* ------------------------------------------------------- the statistics
InitStats ==
    /\ InitTrader
    /\ \E bin \in BatchChoices, bout \in BatchChoices :
          /\ Game = [MarketGame(MarketStartTime, "shard2", 10000, <<>>, <<>>) EXCEPT
                       !.incomingTransactions =
                           Stamped(bin, MarketStartTime - 1)
                             \o << Transaction(MarketStartTime - 2, "H", 70, 300, TRUE) >>,
                       !.outgoingTransactions = Stamped(bout, MarketStartTime - 1)]
          /\ ledger = [bought |-> Totals(bin), sold |-> Totals(bout)]
    /\ memory = [cache |-> [EmptyCache EXCEPT !.tick = MarketStartTime - 1]]
    /\ terminals = ReadyTerminals
    /\ stats = EmptyStats

NextStats ==
    \/ TraderInit
    \/ TraderRun
    \/ StatsTick

SpecStats == InitStats /\ [][NextStats]_vars


\* ------------------------------------------------------------------ claims
\* a step in which assignTask handed a task to a worker
Assigned == Len(log') = Len(log) + 1 /\ log'[Len(log')].task # NoTask
Newest == log'[Len(log')]
Unclaimed(b) == { j \in 1..Len(objectives[b]) : objectives[b][j].claimedBy = NoWorker }
Rank(b) == CHOOSE k \in 1..Len(objectivePriorities) : objectivePriorities[k] = b

C2_OverlordOrder ==
    << "supplyTower", "supply", "pickupEnergy", "collectEnergyMiningSite",
       "collectEnergyContainer", "depositContainer", "build", "repair",
       "buildRoad", "fortify", "upgrade" >>

\* C2: for every configured priority list (the Overlord's is the one the claim
\* gives), an assignTask call never hands a worker an objective of a bucket
\* while a bucket of higher priority holds an objective the worker is capable
\* of and that is still unclaimed.
C2_PriorityOrder ==
    [][ /\ (pc' # "group" => objectivePriorities' = C2_OverlordOrder)
        /\ Assigned =>
              \A k \in 1..Len(objectivePriorities) :
                  (k < Rank(Newest.task[1])
                     /\ objectivePriorities[k] \in caps[Newest.worker])
                    => Unclaimed(objectivePriorities[k]) = {} ]_vars

\* C2 witness: a worker got a repair objective although a higher bucket held
\* an unclaimed objective, which it is not capable of.
C2_Witness ==
    \E w \in Workers :
        /\ task[w] # NoTask /\ task[w][1] = "repair"
        /\ log # <<>> /\ log[Len(log)].worker = w
        /\ "supply" \notin caps[w]
        /\ Unclaimed("supply") # {}
        /\ Rank("supply") < Rank("repair")

\* C3: the objective assigned is nearest to the worker among the objectives of
\* its bucket that were unclaimed when assignTask was called.
C3_NearestInBucket ==
    [][ Assigned =>
          \A j \in Unclaimed(Newest.task[1]) :
              Range(wpos[Newest.worker], Pos(Newest.task[2]))
                <= Range(wpos[Newest.worker],
                         Pos(objectives[Newest.task[1]][j].target)) ]_vars

\* C3 witness: of two repair objectives at ranges 3 and 7 the worker was given
\* the one at range 3, the other being unclaimed.
C3_Witness ==
    \E w \in Workers :
        /\ log # <<>> /\ log[Len(log)].worker = w
        /\ log[Len(log)].task = << "repair", "r1" >>
        /\ Range(wpos[w], Pos("r1")) = 3
        /\ \E j \in Unclaimed("repair") :
              /\ objectives["repair"][j].target = "r2"
              /\ Range(wpos[w], Pos("r2")) = 7

\* the scenario of claim C4
C4_Scenario ==
    /\ objectivePriorities = << "supply", "repair", "build" >>
    /\ Len(objectives["supply"]) = 1 /\ Len(objectives["repair"]) = 1
    /\ PoolSize(objectives) = 2
    /\ caps[1] = {"supply"} /\ caps[2] = {"repair"}
    /\ Len(log) = 2 /\ Queried(1) /\ Queried(2)

\* C4: no worker holds a task whose action is outside its capability set; and
\* with bucket order [supply, repair, build], one supply request, one repair
\* objective, a supply-only and a repair-only worker, each queried once in
\* either order, the supply worker holds the supply request and the repair
\* worker the repair objective.
C4_CapabilityMatching ==
    /\ \A w \in Workers : task[w] # NoTask => task[w][1] \in caps[w]
    /\ C4_Scenario =>
          /\ task[1] = << "supply", objectives["supply"][1].target >>
          /\ task[2] = << "repair", objectives["repair"][1].target >>

\* C4 witness: the scenario, with the repair-only worker queried first.
C4_Witness == C4_Scenario /\ log[1].worker = 2 /\ log[2].worker = 1 /\ task[2] # NoTask

\* the first n assignTask calls of this tick and of the tick before were made
\* by the same workers in the same order
SameCallers(n) == \A i \in 1..n : log[i].worker = prevLog[i].worker
SameTasks(n) == \A i \in 1..n : log[i].task = prevLog[i].task

AsRegistered(objs) ==
    [b \in BucketNames |-> [i \in 1..Len(objs[b]) |-> Objective(objs[b][i].type, objs[b][i].target)]]

Positions == { EntityPos[x] : x \in DOMAIN EntityPos }

\* C5: with nothing in the Objective Group, every assignTask call leaves its
\* worker without a task; with nothing in the Resource Request Group,
\* getPrioritizedClosestRequest has no request to return for any position and
\* queue name; and a queen that finds no supply request is not handed a
\* transfer to a missing target: nothing is raised, and a queen that has room
\* for more energy ends its turn withdrawing or recharging.
C5_EmptyPools ==
    /\ (pc = "group" /\ PoolSize(objectives) = 0) =>
          \A i \in 1..Len(log) :
              log[i].task = NoTask /\ task[log[i].worker] = NoTask
    /\ (\A q \in QueueNames : resourceRequests[q] = <<>>) =>
          \A p \in Positions, q \in QueueNames :
              GetPrioritizedClosestRequest(resourceRequests, p, q) = {}
    /\ (pc = "queenRan" /\ resourceRequests.supply = <<>>) =>
          /\ ~raised
          /\ \A w \in Workers :
                /\ task[w] # NoTask /\ task[w][2] # "undefined"
                /\ (energy[w] > 0 /\ energy[w] < QueenCapacity)
                     => task[w][1] \in { "withdraw", "recharge" }

\* C5 witness: a queen carrying energy found the supply queue empty and holds
\* a recharge task.
C5_Witness ==
    /\ pc = "queenRan" /\ resourceRequests.supply = <<>>
    /\ \E w \in Workers : energy[w] > 0 /\ task[w] = << "recharge", "any" >>

\* the Directive.create calls of this tick for a kind of directive and a room
Calls(kind, room) ==
    { i \in 1..Len(created) : created[i].kind = kind /\ created[i].room = room }
FlagsOf(kind, room) ==
    { k \in 1..Len(env.flags[room]) : env.flags[room][k] = kind }

\* the trigger of claim C8: not incubating, a hatchery, spawn energy below the
\* threshold, no usable storage energy, no miners
C8_Trigger ==
    /\ ~env.isIncubating /\ env.hatchery
    /\ env.energyAvailable < EMERGENCY_ENERGY_THRESHOLD
    /\ (env.storageEnergy = -1 \/ env.storageEnergy <= EMERGENCY_ENERGY_THRESHOLD
          \/ env.creeps.supplier = 0)
    /\ env.creeps.miner = 0

\* C8: on a tick on which the trigger holds and the room has no emergency
\* marker, placeDirectives calls DirectiveEmergency.create, once; on a tick on
\* which the marker exists it does not call it; so the room never holds two
\* emergency markers.
C8_EmergencyOnce ==
    /\ Cardinality(FlagsOf("emergency", ColonyRoom)) <= 1
    /\ pc = "ran" =>
          /\ Cardinality(Calls("emergency", ColonyRoom)) <= 1
          /\ (C8_Trigger /\ FlagsOf("emergency", ColonyRoom) = {})
                => Calls("emergency", ColonyRoom) # {}
          /\ FlagsOf("emergency", ColonyRoom) # {}
                => Calls("emergency", ColonyRoom) = {}

\* C8 witness: the trigger still holds on a later tick, the marker of the
\* earlier tick is in the room, and no directive was created again.
C8_Witness ==
    /\ pc = "ran" /\ tick > 1
    /\ C8_Trigger
    /\ FlagsOf("emergency", ColonyRoom) # {}
    /\ created = <<>>

\* C9 as claimed: an emergency directive is created only when spawn energy is
\* below the threshold, storage energy is not above it and there are no miners,
\* and never for an incubating colony or one without a hatchery.
C9_AsClaimed ==
    (pc = "ran" /\ Calls("emergency", ColonyRoom) # {}) =>
        /\ env.energyAvailable < EMERGENCY_ENERGY_THRESHOLD
        /\ ~(env.storageEnergy > EMERGENCY_ENERGY_THRESHOLD)
        /\ env.creeps.miner = 0
        /\ ~env.isIncubating /\ env.hatchery

\* C9: an emergency directive is created only when spawn energy is below the
\* threshold, storage energy is not above it or no supplier is there to carry
\* it, and there are no miners, and never for an incubating colony or one
\* without a hatchery.
C9_EmergencyTrigger ==
    (pc = "ran" /\ Calls("emergency", ColonyRoom) # {}) =>
        /\ env.energyAvailable < EMERGENCY_ENERGY_THRESHOLD
        /\ (~(env.storageEnergy > EMERGENCY_ENERGY_THRESHOLD) \/ env.creeps.supplier = 0)
        /\ env.creeps.miner = 0
        /\ ~env.isIncubating /\ env.hatchery

\* C9 witness: the directive was created although the storage holds more than
\* the threshold, there being no supplier.
C9_Witness ==
    /\ pc = "ran" /\ Calls("emergency", ColonyRoom) # {}
    /\ env.storageEnergy > EMERGENCY_ENERGY_THRESHOLD
    /\ env.creeps.supplier = 0

\* the rooms claim C10 is about: the outposts and the incubated colonies' rooms
C10_Rooms == Range1(Outposts) \cup UNION { Range1(IncubatedRooms[i]) : i \in 1..Len(IncubatedRooms) }

\* C10: in a run, DirectiveGuard.create is called for a checked room, once and
\* at the first hostile's position, iff the room has a hostile and none of its
\* flags is a guard marker; it is called for no other room; and no room holds
\* two guard markers.
C10_GuardPlacement ==
    /\ \A room \in AllRooms : Cardinality(FlagsOf("guard", room)) <= 1
    /\ pc = "ran" =>
          /\ \A room \in C10_Rooms :
                /\ Calls("guard", room) # {}
                     <=> (Len(env.hostiles[room]) > 0 /\ FlagsOf("guard", room) = {})
                /\ Cardinality(Calls("guard", room)) <= 1
                /\ \A i \in Calls("guard", room) :
                      created[i].pos = env.hostiles[room][1].pos
          /\ \A room \in AllRooms \ C10_Rooms : Calls("guard", room) = {}

\* C10 witness: hostiles are still in an outpost on a later tick, the guard
\* marker of the earlier tick is there, and no second one was created, while
\* another room got its guard at the first of its two hostiles.
C10_Witness ==
    /\ pc = "ran" /\ tick > 1
    /\ Len(env.hostiles["W2"]) = 2 /\ FlagsOf("guard", "W2") # {}
    /\ Calls("guard", "W2") = {}
    /\ \E i \in Calls("guard", "W3") : created[i].pos = env.hostiles["W3"][1].pos

\* the barriers, hostiles and incubator of claim C11's trigger
C11_Trigger ==
    /\ \E i \in 1..Len(world.barriers[ColonyRoom]) :
          world.barriers[ColonyRoom][i].hits < 5000
    /\ \E i \in 1..Len(env.hostiles[ColonyRoom]) :
          env.hostiles[ColonyRoom][i].owner # "Invader"
    /\ ~world.incubator

\* C11 as claimed: a run has activated safe mode on the room controller iff a
\* barrier has fewer than 5000 hits, a hostile not owned by 'Invader' is in the
\* room and the colony has no incubator.
C11_AsClaimed == pc = "ran" => (safeMode <=> C11_Trigger)

\* the hatchery.enqueue calls of this tick for a role
Enqueued(role) == { i \in 1..Len(spawnQueue) : spawnQueue[i].role = role }

\* C12 as claimed: whatever of hatchery, controller, storage and terminal is
\* missing, init and run raise nothing and use no absent reference: no worker
\* request is enqueued with an absent controller as its assignment, and no
\* safe-mode call is made on an absent controller.
C12_AsClaimed ==
    /\ ~raised
    /\ \A i \in Enqueued("worker") : spawnQueue[i].assignment # "none"

\* C14: after init, a worker request is in the hatchery's queue iff there is
\* a hatchery, the room has a storage unit and fewer workers live than needed
\* (3 with an incubator, else 1); and there is never more than one.
C14_WorkerRequests ==
    pc \in { "assign", "ran" } =>
        /\ Cardinality(Enqueued("worker")) <= 1
        /\ Enqueued("worker") # {}
             <=> /\ env.hatchery
                 /\ env.storageUnits >= 1
                 /\ env.creeps.worker < (IF world.incubator THEN 3 ELSE 1)

\* C14 witness: with an incubator and two live workers a third was requested.
C14_Witness ==
    /\ pc = "assign" /\ world.incubator /\ env.creeps.worker = 2
    /\ Enqueued("worker") # {}

\* C15: after init, a mineralSupplier request (assigned to the terminal,
\* pattern repetition limit 1) is in the hatchery's queue iff there is a
\* hatchery, a terminal, a lab and no live mineralSupplier; so on every later
\* tick on which one lives none is requested.
C15_MineralSupplierRequests ==
    pc \in { "assign", "ran" } =>
        /\ Cardinality(Enqueued("mineralSupplier")) <= 1
        /\ Enqueued("mineralSupplier") # {}
             <=> /\ env.hatchery
                 /\ env.terminal /\ env.labs >= 1
                 /\ env.creeps.mineralSupplier = 0
        /\ \A i \in Enqueued("mineralSupplier") :
              spawnQueue[i].assignment = "terminal"
                /\ spawnQueue[i].patternRepetitionLimit = 1

\* C15 witness: a later tick with hatchery, terminal and labs on which a
\* mineralSupplier lives and none was requested.
C15_Witness ==
    /\ pc = "assign" /\ tick > 1
    /\ env.hatchery /\ env.terminal /\ env.labs >= 1
    /\ env.creeps.mineralSupplier = 1
    /\ Enqueued("mineralSupplier") = {}

\* the places of a step in this tick's phases
At(step) == { i \in 1..Len(phases) : phases[i] = step }
Before(a, b) == \A i \in At(a), j \in At(b) : i < j

\* C13 as claimed: the directives' init hooks run before the objective
\* registration and the spawn requests, and their run hooks run after the
\* Overlord's directive-placement step.
C13_AsClaimed ==
    /\ Before("directive.init", "registerObjectives")
    /\ Before("directive.init", "registerCreepRequests")
    /\ Before("placeDirectives", "directive.run")

\* C13: in every tick each directive's init hook runs, all of them before the
\* objective registration and the spawn requests; and each directive's run
\* hook runs, all of them after init and before the safe-mode check and the
\* Overlord's directive-placement step.
C13_PhaseOrdering ==
    /\ Before("directive.init", "registerObjectives")
    /\ Before("directive.init", "registerCreepRequests")
    /\ Before("registerObjectives", "registerCreepRequests")
    /\ Before("registerCreepRequests", "directive.run")
    /\ Before("directive.run", "handleSafeMode")
    /\ Before("directive.run", "placeDirectives")
    /\ Before("handleSafeMode", "placeDirectives")
    /\ pc \in { "assign", "ran" } =>
          /\ Cardinality(At("directive.init")) = Len(Directives(env))
          /\ Cardinality(At("registerObjectives")) = 1
          /\ Cardinality(At("registerCreepRequests")) = 1
    /\ pc = "ran" =>
          /\ Cardinality(At("directive.run")) = Len(Directives(env))
          /\ Cardinality(At("handleSafeMode")) = 1

\* C13 witness: a tick with two directives, one of them placed the tick
\* before, whose hooks ran and in which the placement step was reached.
C13_Witness ==
    /\ pc = "ran" /\ tick > 1
    /\ Len(Directives(env)) = 2
    /\ At("directive.run") # {} /\ At("placeDirectives") # {}

\* does the queen hold a task that is still valid: its load allows it and, for
\* a transfer to a supply target, the target is still requested
C16_HoldsValidTask(w) ==
    /\ HasValidTask(task[w], energy[w], hatchery)
    /\ (task[w][1] = "transfer" /\ task[w][2] # "battery") =>
          \E i \in 1..Len(resourceRequests.supply) :
              resourceRequests.supply[i].target = task[w][2]

\* C16 as claimed: a queen that holds a valid task when QueenOverlord.run
\* begins holds the same task after it, and its task was not set in the run.
C16_AsClaimed ==
    [][ (pc = "queen" /\ pc' = "queenRan") =>
          \A w \in Workers :
              C16_HoldsValidTask(w) =>
                  task'[w] = task[w] /\ taskSets'[w] = taskSets[w] ]_vars

\* C17 as claimed: no worker's task is set a second time within one tick.
C17_AsClaimed == \A w \in Workers : taskSets[w] <= 1

\* C19: a queen that carries energy and finds supply requests is given the
\* transfer to a request of the highest urgency in the queue, and to one that
\* is nearest to it among the requests of that urgency; it is never given a
\* request of lower urgency because that one is nearer.
C19_PrioritizedClosest ==
    pc = "queenRan" =>
        \A w \in Workers :
            (energy[w] > 0 /\ resourceRequests.supply # <<>>) =>
                \E i \in 1..Len(resourceRequests.supply) :
                    /\ task[w] = << "transfer", resourceRequests.supply[i].target >>
                    /\ \A j \in 1..Len(resourceRequests.supply) :
                          /\ resourceRequests.supply[j].urgency
                                <= resourceRequests.supply[i].urgency
                          /\ resourceRequests.supply[j].urgency
                                = resourceRequests.supply[i].urgency
                              => Range(wpos[w], Pos(resourceRequests.supply[i].target))
                                   <= Range(wpos[w], Pos(resourceRequests.supply[j].target))

\* C19 witness: a queen was given the most urgent request although a request
\* of lower urgency is nearer to it.
C19_Witness ==
    /\ pc = "queenRan"
    /\ \E w \in Workers :
          /\ energy[w] > 0 /\ task[w] = << "transfer", "t1" >>
          /\ \E j \in 1..Len(resourceRequests.supply) :
                Range(wpos[w], Pos(resourceRequests.supply[j].target))
                  < Range(wpos[w], Pos("t1"))

\* C20 as claimed: of the queens carrying energy that one run handled, no two
\* hold a transfer to the same request target.
C20_AsClaimed ==
    pc = "queenRan" =>
        \A w1, w2 \in Workers :
            (w1 # w2 /\ energy[w1] > 0 /\ energy[w2] > 0
               /\ task[w1][1] = "transfer" /\ task[w1][2] # "battery")
              => task[w1] # task[w2]

\* C18 as claimed: init and run leave the world, the colony and the controller
\* as they found them.
C18_AsClaimed ==
    [][ (pc \in { "init", "assign" }) =>
          (world' = world /\ env' = env /\ safeMode' = safeMode) ]_vars

\* C18: init and run leave room structures, flags, hostiles and resources
\* unchanged, and the creeps and the hatchery too; the one thing of the world
\* they change is the controller, on which run activates safe mode when the
\* trigger of handleSafeMode holds.
C18_FrameExceptSafeMode ==
    [][ (pc \in { "init", "assign" }) =>
          /\ world' = world /\ env' = env
          /\ UNCHANGED << traderVars, caps, wpos, energy, hatchery >>
          /\ safeMode' # safeMode => (pc = "assign" /\ C11_Trigger /\ safeMode') ]_vars

\* C18 witness: a run activated safe mode and asked for a guard directive, the
\* room's flags being as before.
C18_Witness ==
    /\ pc = "ran" /\ safeMode
    /\ Calls("guard", "W2") # {}
    /\ FlagsOf("guard", "W2") = {}

\* the targets of the supply queue's requests
SupplyTargets == { resourceRequests.supply[i].target : i \in 1..Len(resourceRequests.supply) }

\* C21: the first step of handleQueen gives a queen carrying energy the
\* transfer to the target of a request getPrioritizedClosestRequest returns for
\* its position, whenever the supply queue has a request, and the queen holds
\* that task after the run; a queen carrying no energy is never given, and
\* never holds, a transfer to a supply-request target; a queen carrying energy
\* that finds no supply request is given a withdraw or recharge task instead.
C21_SupplyOrRecharge ==
    pc = "queenRan" =>
        \A w \in Workers :
            /\ (energy[w] > 0 /\ resourceRequests.supply # <<>>) =>
                  /\ \E i \in GetPrioritizedClosestRequest(resourceRequests, wpos[w], "supply") :
                        chosen[w] = << "transfer", resourceRequests.supply[i].target >>
                  /\ task[w] = chosen[w]
            /\ energy[w] = 0 =>
                  /\ ~(chosen[w][1] = "transfer")
                  /\ ~(task[w][1] = "transfer" /\ task[w][2] \in SupplyTargets)
            /\ (energy[w] > 0 /\ resourceRequests.supply = <<>>) =>
                  chosen[w][1] \in { "withdraw", "recharge" }

\* C21 witness: with supply requests waiting, one queen carrying energy was
\* given a transfer to a request's target and one carrying none a withdraw.
C21_Witness ==
    /\ pc = "queenRan" /\ resourceRequests.supply # <<>>
    /\ \E w1, w2 \in Workers :
          /\ energy[w1] > 0 /\ chosen[w1][1] = "transfer" /\ chosen[w1][2] \in SupplyTargets
          /\ energy[w2] = 0 /\ chosen[w2][1] = "withdraw"

\* the queens rechargeActions was called for in the run: those carrying no
\* energy and those that found no supply request
C22_Recharged(w) == energy[w] = 0 \/ resourceRequests.supply = <<>>

\* C22: rechargeActions always assigns a task: the withdraw from the link when
\* there is a link that is not empty, otherwise the withdraw from the battery
\* when there is a battery that is not empty, otherwise the recharge task; it
\* never assigns a withdraw from an empty or absent link or battery.
C22_RechargeOrder ==
    pc = "queenRan" =>
        \A w \in Workers :
            C22_Recharged(w) =>
                /\ chosen[w] # NoTask
                /\ hatchery.link = "some" => chosen[w] = << "withdraw", "link" >>
                /\ (hatchery.link \in { "none", "empty" }
                      /\ hatchery.battery \in { "some", "full" })
                     => chosen[w] = << "withdraw", "battery" >>
                /\ (hatchery.link \in { "none", "empty" }
                      /\ hatchery.battery \in { "none", "empty" })
                     => chosen[w] = << "recharge", "any" >>
                /\ chosen[w] = << "withdraw", "link" >> => hatchery.link = "some"
                /\ chosen[w] = << "withdraw", "battery" >>
                     => hatchery.battery \in { "some", "full" }

\* C22 witness: with an empty link and a battery holding energy, a queen
\* carrying nothing was given the withdraw from the battery.
C22_Witness ==
    /\ pc = "queenRan"
    /\ hatchery.link = "empty" /\ hatchery.battery = "some"
    /\ \E w \in Workers : energy[w] = 0 /\ chosen[w] = << "withdraw", "battery" >>

\* C23: TraderJoe.init rebuilds the market cache if and only if Game.time
\* minus cache.tick is greater than 25, and a rebuild sets cache.tick to
\* Game.time; with init run every tick, the cache's age after init is at most
\* 25 and no two rebuilds are fewer than 26 ticks apart.
C23_CacheFreshness ==
    /\ [][ (pc = "trader") =>
             /\ (rebuilds' # rebuilds) <=> (Game.time - memory.cache.tick > 25)
             /\ (rebuilds' # rebuilds) =>
                   /\ rebuilds' = rebuilds \cup { Game.time }
                   /\ memory'.cache.tick = Game.time
             /\ (rebuilds' = rebuilds) => memory' = memory ]_vars
    /\ [](/\ (pc \in { "trading", "traded" }) => Game.time - memory.cache.tick <= 25
          /\ \A a, b \in rebuilds : a < b => b - a >= 26)

\* C23 witness: the cache was rebuilt twice, 26 ticks apart, and the tick's
\* init left the cache of an earlier tick as it was.
C23_Witness ==
    /\ pc = "trading"
    /\ \E a, b \in rebuilds : b - a = 26
    /\ Game.time - memory.cache.tick >= 1
    /\ memory.cache.sell # <<>>

\* the deals among the Game.market calls of the method called last
Deals == { c \in Elements(marketCalls) : c.call = "deal" }

\* the market's sell orders of a resource that offer at least an amount
SellOffers(res, amount) ==
    { o \in Elements(GetAllOrders(Game)) :
        o.type = "sell" /\ o.resourceType = res /\ o.amount >= amount }

\* C24: buyMineral and lookForGoodDeals make no deal when Game.market.credits
\* is below 10000; buyMineral makes no deal either when the terminal is on
\* cooldown, holds less than 10000 energy, or has less free space than
\* max(amount, TERMINAL_MIN_SEND); and on an MMO shard a deal of buyMineral is
\* with a cheapest sell order offering that much of the resource, whose price
\* is at most the maximum price set for the resource.
C24_SpendingGuards ==
    /\ (lastOp.name \in { "buyMineral", "lookForGoodDeals" } /\ Game.credits < 10000)
          => Deals = {}
    /\ lastOp.name = "buyMineral" =>
          LET t == terminals[lastOp.room]
              needed == IF lastOp.amount > 100 THEN lastOp.amount ELSE 100
              limit == IF lastOp.resourceType = "H" THEN 300 ELSE 5000
          IN  /\ (t.cooldown > 0 \/ t.energy < 10000 \/ t.free < needed) => Deals = {}
              /\ OnMMO(Game) =>
                    \A d \in Deals :
                        \E o \in SellOffers(lastOp.resourceType, needed) :
                            /\ o.id = d.id
                            /\ o.price <= limit
                            /\ \A o2 \in SellOffers(lastOp.resourceType, needed) :
                                  o.price <= o2.price

\* C24 witness: on an MMO shard, with the credits at the reserve, buyMineral
\* dealt with the cheapest order that offers enough, a cheaper order offering
\* too little.
C24_Witness ==
    /\ lastOp.name = "buyMineral" /\ OnMMO(Game) /\ Game.credits = 10000
    /\ \E d \in Deals, o \in Elements(Game.market) :
          /\ o.type = "sell" /\ o.resourceType = lastOp.resourceType
          /\ o.id # d.id /\ o.amount < d.amount
          /\ \E o2 \in Elements(Game.market) : o2.id = d.id /\ o.price < o2.price

\* the own sell orders of each room and resource
OwnSellOrders(room, res) ==
    { i \in 1..Len(Game.orders) :
        /\ Game.orders[i].type = "sell" /\ Game.orders[i].resourceType = res
        /\ Game.orders[i].roomName = room }

\* C25: below the reserve of credits sell makes deals with buy orders only
\* and creates or changes no order; otherwise it makes no deal; it creates an
\* order only when there is no own sell order for the resource and the
\* terminal's room, so that there is never more than one own sell order for a
\* room and resource; and it creates and changes nothing when the cache has
\* no sell price for the resource.
C25_SellDispatch ==
    /\ lastOp.name = "sell" =>
          /\ Game.credits < 10000 =>
                \A c \in Elements(marketCalls) :
                    /\ c.call = "deal"
                    /\ \E o \in Elements(GetAllOrders(Game)) :
                          o.id = c.id /\ o.type = "buy" /\ o.resourceType = lastOp.resourceType
          /\ Game.credits >= 10000 => Deals = {}
          /\ (\E c \in Elements(marketCalls) : c.call = "createOrder") =>
                OwnSellOrders(lastOp.room, lastOp.resourceType) = {}
          /\ lastOp.resourceType \notin DOMAIN memory.cache.sell =>
                marketCalls \in { <<>> } \cup { << c >> : c \in Deals }
    /\ \A room \in TerminalRooms, res \in SellResources :
          Cardinality(OwnSellOrders(room, res)) <= 1

\* C25 witness: an order that sell created the tick before is listed, and
\* sell, called again for its room and resource, created none.
C25_Witness ==
    /\ lastOp.name = "sell" /\ Game.credits >= 10000
    /\ lastOp.resourceType \in DOMAIN memory.cache.sell
    /\ \E i \in OwnSellOrders(lastOp.room, lastOp.resourceType) :
          Game.orders[i].created = Game.time - 1
    /\ \A c \in Elements(marketCalls) : c.call # "createOrder"

\* C26: recordStats, run every tick, has added to stats.bought and stats.sold
\* the amount and amount * price of every transaction with an order exactly
\* once, those of the tick before included and no other, and the recorded
\* totals never decrease.
C26_CountedOnce ==
    /\ [](pc = "traded" =>
            \A r \in TradedResources :
                /\ StatOf(stats.bought, r) = ledger.bought[r]
                /\ StatOf(stats.sold, r) = ledger.sold[r])
    /\ [][ \A r \in TradedResources :
             /\ StatOf(stats'.bought, r).amount >= StatOf(stats.bought, r).amount
             /\ StatOf(stats'.bought, r).credits >= StatOf(stats.bought, r).credits
             /\ StatOf(stats'.sold, r).amount >= StatOf(stats.sold, r).amount
             /\ StatOf(stats'.sold, r).credits >= StatOf(stats.sold, r).credits ]_vars

\* C26 witness: in a later tick, run has counted transactions of two ticks
\* while the lists still show those of the earlier tick and one without an
\* order.
C26_Witness ==
    /\ pc = "traded" /\ tick > 1
    /\ StatOf(stats.bought, "H").amount = 200
    /\ StatOf(stats.sold, "O").amount = 50
    /\ \E i \in 1..Len(Game.incomingTransactions) :
          Game.incomingTransactions[i].time = Game.time - 2
    /\ \E i \in 1..Len(Game.incomingTransactions) :
          /\ ~Game.incomingTransactions[i].order
          /\ Game.incomingTransactions[i].time = Game.time - 1

====
